---- MODULE Spec2Model ----
(***************************************************************************)
(* Order-intake service: the payment capacity gate shared by the           *)
(* synchronous handler and the SQS consumer (package orders), and the two  *)
(* shopping-cart stores (package cart).                                    *)
(***************************************************************************)
EXTENDS Integers, Sequences, FiniteSets, TLC

\* ------------------------------------------------------------------------
\* Bounds of the model
\* ------------------------------------------------------------------------
MaxWorkers == 2
MaxSync == 1
MaxMsgs == 1
MaxReceives == 2
MaxCrashes == 1
MaxTasks == 2
MaxAdds == 2
MaxCheckouts == 1
MaxBurst == 2
MaxCarts == 2
MaxRecords == 3
MaxProducts == 3

\* ------------------------------------------------------------------------
\* Program constants
\* ------------------------------------------------------------------------
\* pollLoop: MaxNumberOfMessages
BatchSize == 10
\* InitSchema: products seeded
CatalogSize == 1000
\* processPaymentAsync: seconds of the payment timer
PaymentDelay == 3
\* DynamoDBStore.CreateCart: days a cart record lives
CartTTL == 7

SyncReqs == 1..MaxSync
\* the synchronous submissions of a burst
Burst == 1..MaxBurst
Msgs == 1..MaxMsgs

\* WORKER_COUNT values the process can be started with
WorkerEnv == {[kind |-> "unset", val |-> 0]}
               \cup {[kind |-> "int", val |-> MaxWorkers]}
\* every kind of WORKER_COUNT value: unset or empty, not a number, and the
\* integers from -1 to MaxWorkers
AnyWorkerEnv == {[kind |-> "unset", val |-> 0], [kind |-> "text", val |-> 0]}
                  \cup {[kind |-> "int", val |-> n] : n \in -1..MaxWorkers}

\* request bodies of POST /orders/sync and /orders/async
Payloads == {"ok", "badJson", "noItems"}
\* bodies a queue message can carry
MsgKinds == {"ok", "badEnvelope", "badOrder"}

VARIABLES
  workerEnv,          \* WORKER_COUNT of the deployment
  workerCount,        \* cap(paymentSemaphore)
  paymentSemaphore,   \* len(paymentSemaphore): slots taken
  syncReq,            \* CreateOrderSync: position of the handler of each request
  payTask,            \* processPaymentAsync: position of the request's goroutine
  resultChan,         \* processPaymentAsync: results buffered in resultChan
  queue,              \* SQS: per message, body kind, state and receive count
  msgTask,            \* processMessage: per message, its goroutines at each position
  crashes,            \* process exits so far
  hist,               \* per message: what has happened to it
  backend,            \* the cart store in use: "sql" (Store) or "ddb" (DynamoDBStore)
  shopping_carts,     \* table shopping_carts, by id
  cart_items,         \* table cart_items: the committed rows
  orders,             \* table orders: the committed rows
  order_items,        \* table order_items: the committed rows
  table,              \* the DynamoDB table: the record of each cart_id
  call,               \* the store call each request runs and its position
  ret,                \* the store call that returned last and its result
  nCarts,             \* carts created so far: the sequence, or the uuids used
  nAdds,              \* AddOrUpdateItem calls so far: their time.Now()
  nCheckouts,         \* CheckoutCart calls so far: the order ids used
  added,              \* per cart and product: quantity added by the calls that
                      \* returned success since the line was last removed
  products,           \* table products: the price of each product of the catalog
  replica,            \* the DynamoDB table as an eventually consistent read sees it
  got,                \* what GetCartWithItems returned last
  failed,             \* order ids generated by checkouts that then failed
  addedAt,            \* per cart and product: the catalog price when the line
                      \* was last inserted into the cart, 0 before
  snaps,              \* per cart: the states the stored cart has been in
  clock,              \* seconds since the process started
  due,                \* per submission of a burst: when its payment timer fires
  doneAt,             \* per submission of a burst: when it was answered
  asyncRet,           \* CreateOrderAsync: the request handled last and its answer
  invocation,         \* the Lambda handler: its event, the record in hand, the
                      \* records whose payment it has processed, and its return
  store               \* product.Store: the map products, nextID, and what the
                      \* call that returned last was and returned

envVars == <<workerEnv, workerCount>>
syncVars == <<syncReq, payTask, resultChan>>
queueVars == <<queue, msgTask, hist>>

ordersVars == <<envVars, paymentSemaphore, syncVars, queueVars, crashes>>

\* the catalog, and what the reads of a cart see
readVars == <<products, replica, got>>

cartVars == <<backend, shopping_carts, cart_items, orders, order_items, table, call, ret,
              nCarts, nAdds, nCheckouts, added, readVars, failed, addedAt, snaps>>

\* the time of a burst of submissions; -1 is not yet
timeVars == <<clock, due, doneAt>>

\* what the handlers outside the payment path last answered
sideVars == <<asyncRet, invocation, store>>

auxVars == <<timeVars, sideVars>>

vars == <<ordersVars, cartVars, auxVars>>

\* ------------------------------------------------------------------------
\* orders/handlers.go: init
\* ------------------------------------------------------------------------
InitWorkerCountUnchecked(env) ==
  IF env.kind = "int" THEN env.val ELSE 1
InitWorkerCount(env) ==
  IF env.kind = "int" /\ env.val > 0 THEN env.val ELSE 1

\* positions of a goroutine that has taken a slot and not returned it
Holding == {"processing", "releasing"}
\* positions of a goroutine that still runs
LivePay == {"await", "processing", "releasing"}
LiveMsg == {"dropBad", "await", "processing", "ack"}
\* positions of a processMessage goroutine; one that faulted is "panicked"
TaskPcs == LiveMsg \cup {"panicked"}

NoTask == [pc \in TaskPcs |-> 0]
\* goroutines of message m that still run
Running(m) == msgTask[m]["dropBad"] + msgTask[m]["await"]
                + msgTask[m]["processing"] + msgTask[m]["ack"]

\* no request handled yet
NoAnswer == [body |-> "none", fault |-> "none", outcome |-> "none"]
\* the Lambda function has not been invoked
NoInvocation == [snsEvent |-> <<>>, pc |-> "idle", record |-> 0, paid |-> <<>>,
                 ret |-> "none"]

\* product.NewStore
NewStore == [products |-> <<>>, nextID |-> 1, op |-> "NewStore", id |-> 0]

\* the asynchronous handler, the Lambda function and the product store are
\* not part of the deployment
SideNotDeployed ==
  /\ asyncRet = <<>>
  /\ invocation = <<>>
  /\ store = <<>>

InitOrdersWith(envs) ==
  /\ workerEnv \in envs
  /\ workerCount = InitWorkerCount(workerEnv)
  /\ paymentSemaphore = 0
  /\ syncReq = [r \in SyncReqs |-> "idle"]
  /\ payTask = [r \in SyncReqs |-> "none"]
  /\ resultChan = [r \in SyncReqs |-> 0]
  /\ queue = [m \in Msgs |-> [kind |-> "ok", st |-> "absent", rc |-> 0]]
  /\ msgTask = [m \in Msgs |-> NoTask]
  /\ crashes = 0
  /\ hist = [m \in Msgs |-> [ackLost |-> FALSE, owed |-> FALSE]]
  /\ clock = 0
  /\ due = <<>>
  /\ doneAt = <<>>

InitOrders == InitOrdersWith(WorkerEnv) /\ SideNotDeployed

\* ------------------------------------------------------------------------
\* The capacity gate: paymentSemaphore, a buffered channel of workerCount slots
\* ------------------------------------------------------------------------
\* a send on the channel proceeds only while the buffer is not full
CanAcquireUnbounded == TRUE
CanAcquire == paymentSemaphore < workerCount

AcquireSlot == paymentSemaphore' = paymentSemaphore + 1

\* the deferred receive from the channel; it runs on return and on panic
ReleaseNotDeferred(faulted) ==
  IF faulted THEN UNCHANGED paymentSemaphore
  ELSE paymentSemaphore' = paymentSemaphore - 1
ReleaseForgotten(faulted) == UNCHANGED paymentSemaphore
ReleaseSlot(faulted) == paymentSemaphore' = paymentSemaphore - 1

\* process exits are counted up to MaxCrashes, and none happens once a
\* message with a running goroutine has used up its MaxReceives deliveries
CrashAllowed ==
  /\ crashes < MaxCrashes
  /\ \A m \in Msgs : Running(m) > 0 => queue[m].rc < MaxReceives

\* ------------------------------------------------------------------------
\* orders/handlers.go: CreateOrderSync and processPaymentAsync
\* ------------------------------------------------------------------------
\* ShouldBindJSON and the empty-items check
ItemsUnchecked(p) == p # "badJson"
ValidPayload(p) == p = "ok"

\* the handler up to its blocking receive: a body that fails validation is
\* answered 400 and the request is over; otherwise processPaymentAsync makes
\* resultChan, starts the goroutine and returns the channel, on which the
\* handler then blocks. SyncReqs are the requests in flight at one time; the
\* lowest free one is taken.
FreeReq(r) == syncReq[r] = "idle" /\ payTask[r] = "none"

CreateOrderSyncFor(r, p) ==
  /\ FreeReq(r)
  /\ syncReq' = [syncReq EXCEPT ![r] = IF ValidPayload(p) THEN "Waiting" ELSE "idle"]
  /\ payTask' = [payTask EXCEPT ![r] = IF ValidPayload(p) THEN "await" ELSE @]
  /\ UNCHANGED <<envVars, paymentSemaphore, resultChan, queueVars, crashes>>

CreateOrderSync(r, p) ==
  /\ \A q \in SyncReqs : q < r => ~FreeReq(q)
  /\ CreateOrderSyncFor(r, p)

PayAcquire(r) ==
  /\ payTask[r] = "await"
  /\ CanAcquire
  /\ AcquireSlot
  /\ payTask' = [payTask EXCEPT ![r] = "processing"]
  /\ UNCHANGED <<envVars, syncReq, resultChan, queueVars, crashes>>

\* the timer fires and the result is sent on the buffered channel
PayTimer(r) ==
  /\ payTask[r] = "processing"
  /\ payTask' = [payTask EXCEPT ![r] = "releasing"]
  /\ resultChan' = [resultChan EXCEPT ![r] = 1]
  /\ UNCHANGED <<envVars, paymentSemaphore, syncReq, queueVars, crashes>>

PayRelease(r) ==
  /\ payTask[r] = "releasing"
  /\ ReleaseSlot(FALSE)
  /\ payTask' = [payTask EXCEPT ![r] = "none"]
  /\ UNCHANGED <<envVars, syncReq, resultChan, queueVars, crashes>>

\* result := <-paymentResult: the receive proceeds once a result is buffered
ResultAssumed(r) == TRUE
ResultReady(r) == resultChan[r] > 0

\* the handler receives the result and answers 200: the request is over
SyncRespond(r) ==
  /\ syncReq[r] = "Waiting"
  /\ ResultReady(r)
  /\ resultChan' = [resultChan EXCEPT ![r] = 0]
  /\ syncReq' = [syncReq EXCEPT ![r] = "idle"]
  /\ UNCHANGED <<envVars, paymentSemaphore, payTask, queueVars, crashes>>

\* a fault while the slot is held: the deferred function runs, then the
\* goroutine ends in a panic that takes the process down (ProcessExit)
PayPanic(r) ==
  /\ payTask[r] = "processing"
  /\ CrashAllowed
  /\ ReleaseSlot(TRUE)
  /\ payTask' = [payTask EXCEPT ![r] = "panicked"]
  /\ crashes' = crashes + 1
  /\ UNCHANGED <<envVars, syncReq, resultChan, queueVars>>

Panicking ==
  \/ \E r \in SyncReqs : payTask[r] = "panicked"
  \/ \E m \in Msgs : msgTask[m]["panicked"] > 0

\* deliveries a message may still get: at most MaxReceives, the last of them
\* kept for the process that follows one that is about to exit
ReceivesLeft(m) == MaxReceives - queue[m].rc - (IF Panicking THEN 1 ELSE 0)

\* ------------------------------------------------------------------------
\* orders/handlers_async.go: CreateOrderAsync, and the SNS topic feeding the queue
\* ------------------------------------------------------------------------
AsyncFaults == {"none", "noTopic", "session", "marshal", "publish"}

FreeMsgs == {m \in Msgs : queue[m].st = "absent"}
NextMsg == CHOOSE m \in FreeMsgs : \A n \in FreeMsgs : m <= n

\* the message becomes available in the queue
Enqueue(m, k) ==
  queue' = [queue EXCEPT ![m] = [kind |-> k, st |-> "visible", rc |-> 0]]

\* the handler's outcome for a body p when step f of the publish fails
AsyncOutcomeGated(p, f) ==
  IF ~ValidPayload(p) THEN "bad_request"
  ELSE IF f # "none" \/ ~CanAcquire THEN "error"
  ELSE "queued"
AsyncOutcomePublishUnchecked(p, f) ==
  IF ~ValidPayload(p) THEN "bad_request"
  ELSE IF f \notin {"none", "publish"} THEN "error"
  ELSE "queued"
AsyncOutcome(p, f) ==
  IF ~ValidPayload(p) THEN "bad_request"
  ELSE IF f # "none" THEN "error"
  ELSE "queued"

\* the requests to tell apart: a body, and for a valid body the step that fails
AsyncCases == {c \in Payloads \X AsyncFaults : ValidPayload(c[1]) \/ c[2] = "none"}

CreateOrderAsync(p, f) ==
  /\ IF AsyncOutcome(p, f) = "queued"
       THEN /\ FreeMsgs # {}
            /\ Enqueue(NextMsg, "ok")
       ELSE UNCHANGED queue
  /\ UNCHANGED <<envVars, paymentSemaphore, syncVars, msgTask, hist, crashes>>

\* a message that is not an SNS envelope of an order reaches the queue
ForeignMessage(k) ==
  /\ FreeMsgs # {}
  /\ Enqueue(NextMsg, k)
  /\ UNCHANGED <<envVars, paymentSemaphore, syncVars, msgTask, hist, crashes>>

\* ------------------------------------------------------------------------
\* order processor: pollLoop, processMessage, processOrder, deleteMessage
\* ------------------------------------------------------------------------
Visible == {m \in Msgs : queue[m].st = "visible"}

\* where processMessage goes after the two json.Unmarshal calls
AckBeforeProcessing(k) == IF k = "ok" THEN "ack" ELSE "dropBad"
ProcessUnparsed(k) == "await"
DropUnprocessed(k) == "dropBad"
AfterParse(k) == IF k = "ok" THEN "await" ELSE "dropBad"

\* one goroutine of message m moves from position a to position b
Move(m, a, b) ==
  msgTask' = [msgTask EXCEPT ![m] = [@ EXCEPT ![a] = @ - 1, ![b] = @ + 1]]
\* one goroutine of message m at position a returns
Return(m, a) ==
  msgTask' = [msgTask EXCEPT ![m][a] = @ - 1]

\* ReceiveMessage returns a batch; each message gets its own goroutine, which
\* first unmarshals the body
pollLoop(B) ==
  /\ B # {}
  /\ B \subseteq Visible
  /\ Cardinality(B) <= BatchSize
  /\ \A m \in B : ReceivesLeft(m) > 0
  /\ queue' = [m \in Msgs |->
                 IF m \in B THEN [queue[m] EXCEPT !.st = "inflight", !.rc = @ + 1]
                 ELSE queue[m]]
  /\ msgTask' = [m \in Msgs |->
                   IF m \in B
                   THEN [msgTask[m] EXCEPT ![AfterParse(queue[m].kind)] = @ + 1]
                   ELSE msgTask[m]]
  /\ UNCHANGED <<envVars, paymentSemaphore, syncVars, hist, crashes>>

\* DeleteMessage with the receipt handle the goroutine received; ok: the
\* request took effect (it can fail, and with a handle that is not the latest
\* one the service may leave the message in place)
deleteMessage(m, ok) ==
  /\ queue' = [queue EXCEPT ![m].st = IF ok THEN "deleted" ELSE @]
  /\ hist' = [hist EXCEPT ![m].ackLost = @ \/ (~ok /\ queue[m].st # "deleted")]

MsgDropBad(m, ok) ==
  /\ msgTask[m]["dropBad"] > 0
  /\ deleteMessage(m, ok)
  /\ Return(m, "dropBad")
  /\ UNCHANGED <<envVars, paymentSemaphore, syncVars, crashes>>

\* processOrder: the send on paymentSemaphore
MsgAcquire(m) ==
  /\ msgTask[m]["await"] > 0
  /\ CanAcquire
  /\ AcquireSlot
  /\ Move(m, "await", "processing")
  /\ UNCHANGED <<envVars, syncVars, queue, hist, crashes>>

\* processOrder: time.Sleep returns, the payment simulation of this delivery
\* is complete, and the deferred release runs as processOrder returns
MsgPaid(m) ==
  /\ msgTask[m]["processing"] > 0
  /\ ReleaseSlot(FALSE)
  /\ Move(m, "processing", "ack")
  /\ hist' = [hist EXCEPT ![m].owed = FALSE]
  /\ UNCHANGED <<envVars, syncVars, queue, crashes>>

MsgAck(m, ok) ==
  /\ msgTask[m]["ack"] > 0
  /\ deleteMessage(m, ok)
  /\ Return(m, "ack")
  /\ UNCHANGED <<envVars, paymentSemaphore, syncVars, crashes>>

MsgPanic(m) ==
  /\ msgTask[m]["processing"] > 0
  /\ CrashAllowed
  /\ ReleaseSlot(TRUE)
  /\ Move(m, "processing", "panicked")
  /\ crashes' = crashes + 1
  /\ UNCHANGED <<envVars, syncVars, queue, hist>>

\* the visibility window of an unacknowledged message elapses; it does not
\* elapse within the steps a goroutine takes right after the receive
VisibilityTimeout(m) ==
  /\ queue[m].st = "inflight"
  /\ msgTask[m]["dropBad"] = 0
  /\ queue' = [queue EXCEPT ![m].st = "visible"]
  /\ UNCHANGED <<envVars, paymentSemaphore, syncVars, msgTask, hist, crashes>>

\* ------------------------------------------------------------------------
\* the process ends (a panic, or a kill) and a new one starts: init runs again
\* ------------------------------------------------------------------------
AnyLive(m) == Running(m) + msgTask[m]["panicked"] > 0
\* a delivery of m took a slot and m is not acknowledged
HeldUnacked(m) ==
  /\ queue[m].st # "deleted"
  /\ msgTask[m]["processing"] + msgTask[m]["ack"] + msgTask[m]["panicked"] > 0

Exit ==
  /\ workerCount' = InitWorkerCount(workerEnv)
  /\ paymentSemaphore' = 0
  /\ syncReq' = [r \in SyncReqs |-> "idle"]
  /\ payTask' = [r \in SyncReqs |-> "none"]
  /\ resultChan' = [r \in SyncReqs |-> 0]
  /\ msgTask' = [m \in Msgs |-> NoTask]
  /\ hist' = [m \in Msgs |->
                [ackLost |-> hist[m].ackLost \/ (AnyLive(m) /\ queue[m].st # "deleted"),
                 owed |-> hist[m].owed \/ (HeldUnacked(m) /\ queue[m].kind = "ok")]]
  /\ UNCHANGED <<workerEnv, queue>>

ProcessExit ==
  /\ Panicking
  /\ Exit
  /\ UNCHANGED crashes

Crash ==
  /\ ~Panicking
  /\ CrashAllowed
  /\ Exit
  /\ crashes' = crashes + 1

\* ------------------------------------------------------------------------
\* package cart: the relational store (store.go) and the document store
\* (DynamoDBStore).  Amounts are in cents.
\* ------------------------------------------------------------------------
\* the cart ids requests name; calls on different carts share no row and no
\* record
CartIds == {1}
Tasks == 1..MaxTasks
Customers == {42}
\* product ids of requests: two seeded products and one outside the catalog
ProductIds == {7, 8, 1001}
Quantities == {1, 2}

\* InitSchema: the catalog rows and their prices
InCatalog(p) == p \in 1..CatalogSize
ProductPrice(p) == ((p % 100) + 1) * 100 + (p % 100)

NoCartRow == [exists |-> FALSE, customer_id |-> 0, created_at |-> 0, updated_at |-> 0]
\* DynamoDBCart
NoRecord == [exists |-> FALSE, customer_id |-> 0, items |-> <<>>, item_count |-> 0,
             total_amount |-> 0, created_at |-> 0, updated_at |-> 0,
             expiration_time |-> 0]
NoWrite == [kind |-> "none", id |-> 0, quantity |-> 0]
\* a store call that is not running
NoCall == [op |-> "none", pc |-> "idle", cart |-> 0, product |-> 0, quantity |-> 0,
           n |-> 0, customer |-> 0, w |-> NoWrite, items |-> {}, del |-> {}, rec |-> NoRecord]
NoReturn == [op |-> "none", cart |-> 0, res |-> "none"]
\* no GetCartWithItems has returned
NoHeader == [customer_id |-> 0, created_at |-> 0, updated_at |-> 0]
NoGot == [cart |-> 0, res |-> "none", header |-> NoHeader, lines |-> {}]
\* ShoppingCart: the header of a cart row or of a cart record
Header(r) ==
  [customer_id |-> r.customer_id, created_at |-> r.created_at, updated_at |-> r.updated_at]

InitCart ==
  /\ backend \in {"sql", "ddb"}
  /\ shopping_carts = [c \in CartIds |-> NoCartRow]
  /\ cart_items = {}
  /\ orders = {}
  /\ order_items = {}
  /\ table = [c \in CartIds |-> NoRecord]
  /\ call = [t \in Tasks |-> NoCall]
  /\ ret = NoReturn
  /\ nCarts = 0
  /\ nAdds = 0
  /\ nCheckouts = 0
  /\ added = [c \in CartIds |-> [p \in ProductIds |-> 0]]
  /\ products = [p \in {x \in ProductIds : InCatalog(x)} |-> ProductPrice(p)]
  /\ replica = [c \in CartIds |-> NoRecord]
  /\ got = NoGot
  /\ failed = {}
  /\ addedAt = [c \in CartIds |-> [p \in ProductIds |-> 0]]
  /\ snaps = [c \in CartIds |-> {[header |-> NoHeader, lines |-> {}]}]

\* the store calls in progress
Active(t) == call[t].pc # "idle"
\* the next free request slot
FreeTask(t) == call[t].pc = "idle" /\ \A u \in Tasks : u < t => call[u].pc # "idle"
\* the call of t returns r
Finish(t, r) ==
  /\ call' = [call EXCEPT ![t] = NoCall]
  /\ ret' = [op |-> call[t].op, cart |-> call[t].cart, res |-> r]
\* a call returns r from its first statement
Refuse(o, c, r) ==
  /\ ret' = [op |-> o, cart |-> c, res |-> r]
  /\ UNCHANGED call

RECURSIVE LinesTotal(_)
LinesTotal(S) ==
  IF S = {} THEN 0
  ELSE LET l == CHOOSE x \in S : TRUE
       IN l.quantity * l.price + LinesTotal(S \ {l})

\* ---- the relational store ----------------------------------------------
RowsOf(c) == {r \in cart_items : r.cart = c}
RowsFor(c, p) == {r \in cart_items : r.cart = c /\ r.product = p}
\* what identifies a row
RowKey(r) == <<r.cart, r.product, r.id>>

\* the lines of a cart as a reader of the committed tables sees them
SqlLines(rows, c) ==
  {[product |-> r.product, quantity |-> r.quantity, price |-> products[r.product]] :
     r \in {x \in rows : x.cart = c}}
\* the lines of a cart record
RecLines(rec) ==
  {[product |-> rec.items[i].product, quantity |-> rec.items[i].quantity,
    price |-> rec.items[i].price] : i \in 1..Len(rec.items)}

\* row locks of the open transactions (READ COMMITTED): the key of an
\* upserted row until commit, the rows of a DELETE until commit
HoldsKey(u, c, p) ==
  \/ /\ call[u].op = "add"
     /\ call[u].pc \in {"touch", "commit"}
     /\ call[u].cart = c
     /\ call[u].product = p
  \/ /\ call[u].op = "checkout"
     /\ call[u].pc = "commit"
     /\ \E r \in RowsFor(c, p) : RowKey(r) \in call[u].del
KeyNeverLocked(t, c, p) == FALSE
KeyLocked(t, c, p) == \E u \in Tasks \ {t} : HoldsKey(u, c, p)
\* the shopping_carts row is locked by the UPDATE of its timestamp
CartRowLocked(t, c) ==
  \E u \in Tasks \ {t} :
    call[u].op = "add" /\ call[u].pc = "commit" /\ call[u].cart = c

\* CreateCart: one INSERT, the id from the sequence
\* the id a new cart gets: the next value of the sequence of shopping_carts.id,
\* or a uuid no earlier call has drawn (and not the lowest id that is free)
LowestFreeCartId == CHOOSE c \in DOMAIN shopping_carts :
                      /\ ~shopping_carts[c].exists /\ ~table[c].exists
                      /\ \A d \in DOMAIN shopping_carts :
                           (~shopping_carts[d].exists /\ ~table[d].exists) => c <= d
NewCartId == nCarts + 1

\* CreateCart while the store has room for one of the carts ids
Store_CreateCartIn(ids, cust) ==
  /\ backend = "sql"
  /\ nCarts < Cardinality(ids)
  /\ nCarts' = nCarts + 1
  /\ shopping_carts' = [shopping_carts EXCEPT ![NewCartId] =
        [exists |-> TRUE, customer_id |-> cust, created_at |-> nAdds, updated_at |-> nAdds]]
  /\ UNCHANGED <<backend, cart_items, orders, order_items, table, call, ret, nAdds, nCheckouts, added>>

Store_CreateCart(cust) == Store_CreateCartIn(CartIds, cust)

\* AddOrUpdateItem: Begin, verify cart, verify product
Store_AddOrUpdateItem(t, c, p, q, fail) ==
  /\ backend = "sql"
  /\ FreeTask(t)
  /\ nAdds < MaxAdds
  /\ nAdds' = nAdds + 1
  /\ IF fail THEN Refuse("add", c, "error")
     ELSE IF ~shopping_carts[c].exists THEN Refuse("add", c, "CartNotFound")
     ELSE IF ~InCatalog(p) THEN Refuse("add", c, "ProductNotFound")
     ELSE /\ call' = [call EXCEPT ![t] =
                [NoCall EXCEPT !.op = "add", !.pc = "upsert", !.cart = c, !.product = p,
                               !.quantity = q, !.n = nAdds + 1]]
          /\ UNCHANGED ret
  /\ UNCHANGED <<backend, shopping_carts, cart_items, orders, order_items, table, nCarts, nCheckouts, added>>

\* AddOrUpdateItem: INSERT ... ON CONFLICT (shopping_cart_id, product_id) DO
\* UPDATE; waits for a transaction that holds the key
Store_Upsert(t) ==
  /\ call[t].op = "add" /\ call[t].pc = "upsert"
  /\ ~KeyLocked(t, call[t].cart, call[t].product)
  /\ LET old == RowsFor(call[t].cart, call[t].product)
     IN call' = [call EXCEPT ![t].pc = "touch",
                             ![t].w = IF old = {}
                                      THEN [kind |-> "insert", id |-> 0,
                                            quantity |-> call[t].quantity]
                                      ELSE LET r == CHOOSE x \in old : TRUE
                                           IN [kind |-> "update", id |-> r.id,
                                               quantity |-> r.quantity + call[t].quantity]]
  /\ UNCHANGED <<backend, shopping_carts, cart_items, orders, order_items, table, nCarts, nAdds, nCheckouts, added, ret>>

\* AddOrUpdateItem: UPDATE shopping_carts SET updated_at
Store_Touch(t) ==
  /\ call[t].op = "add" /\ call[t].pc = "touch"
  /\ ~CartRowLocked(t, call[t].cart)
  /\ call' = [call EXCEPT ![t].pc = "commit"]
  /\ UNCHANGED <<backend, shopping_carts, cart_items, orders, order_items, table, nCarts, nAdds, nCheckouts, added, ret>>

\* cart_items.id: the sequence, kept per cart and product
NextId(c, p) ==
  IF RowsFor(c, p) = {} THEN 1
  ELSE 1 + (CHOOSE i \in {r.id : r \in RowsFor(c, p)} : \A r \in RowsFor(c, p) : r.id <= i)
\* the rows of cart_items once the transaction's write is applied
Written(t) ==
  LET w == call[t].w
  IN IF w.kind = "insert"
       THEN cart_items \cup {[id |-> NextId(call[t].cart, call[t].product),
                              cart |-> call[t].cart,
                              product |-> call[t].product, quantity |-> w.quantity]}
     ELSE IF w.kind = "update"
       THEN {r \in cart_items : RowKey(r) # <<call[t].cart, call[t].product, w.id>>}
              \cup {[id |-> w.id, cart |-> call[t].cart,
                     product |-> call[t].product, quantity |-> w.quantity]}
     ELSE cart_items

\* AddOrUpdateItem: Commit
Store_AddCommit(t) ==
  /\ call[t].op = "add" /\ call[t].pc = "commit" /\ backend = "sql"
  /\ cart_items' = Written(t)
  /\ shopping_carts' = [shopping_carts EXCEPT ![call[t].cart].updated_at = call[t].n]
  /\ added' = [added EXCEPT ![call[t].cart][call[t].product] = @ + call[t].quantity]
  /\ Finish(t, "ok")
  /\ UNCHANGED <<backend, orders, order_items, table, nCarts, nAdds, nCheckouts>>

\* CheckoutCart: the order and the order lines the transaction inserts
OrderOf(t) ==
  [id |-> call[t].n, customer_id |-> call[t].customer, status |-> "pending",
   total_amount |-> LinesTotal(call[t].items)]
OrderItemsSkipped(t) == {}
OrderItemsOf(t) ==
  {[order_id |-> call[t].n, product |-> l.product, quantity |-> l.quantity,
    price |-> l.price] : l \in call[t].items}

\* len(items) == 0
EmptyCartIgnored(n) == FALSE
EmptyCart(n) == n = 0

\* CheckoutCart: Begin, SELECT customer_id FROM shopping_carts
Store_CheckoutCartUpTo(lim, t, c, fail) ==
  /\ backend = "sql"
  /\ FreeTask(t)
  /\ nCheckouts < lim
  /\ nCheckouts' = nCheckouts + 1
  /\ IF fail THEN Refuse("checkout", c, "error")
     ELSE IF ~shopping_carts[c].exists THEN Refuse("checkout", c, "CartNotFound")
     ELSE /\ call' = [call EXCEPT ![t] =
                [NoCall EXCEPT !.op = "checkout", !.pc = "readItems", !.cart = c,
                               !.n = nCheckouts + 1,
                               !.customer = shopping_carts[c].customer_id]]
          /\ UNCHANGED ret
  /\ UNCHANGED <<backend, shopping_carts, cart_items, orders, order_items, table, nCarts, nAdds, added>>

Store_CheckoutCart(t, c, fail) == Store_CheckoutCartUpTo(MaxCheckouts, t, c, fail)

\* CheckoutCart: p.price of the row of products joined to a line
PriceSeeded(p) == ProductPrice(p)
JoinedPrice(p) == products[p]

\* CheckoutCart: SELECT the lines joined with the catalog prices, total them,
\* and return ErrEmptyCart when there is none
Store_ReadItems(t) ==
  /\ call[t].op = "checkout" /\ call[t].pc = "readItems"
  /\ LET items == {[product |-> r.product, quantity |-> r.quantity,
                    price |-> JoinedPrice(r.product)] :
                     r \in {x \in RowsOf(call[t].cart) : InCatalog(x.product)}}
     IN IF EmptyCart(Cardinality(items)) THEN Finish(t, "EmptyCart")
        ELSE /\ call' = [call EXCEPT ![t].pc = "insertOrder", ![t].items = items]
             /\ UNCHANGED ret
  /\ UNCHANGED <<backend, shopping_carts, cart_items, orders, order_items, table, nCarts, nAdds, nCheckouts, added>>

\* CheckoutCart: INSERT INTO orders ... RETURNING id
Store_InsertOrder(t) ==
  /\ call[t].op = "checkout" /\ call[t].pc = "insertOrder"
  /\ call' = [call EXCEPT ![t].pc = "insertItems"]
  /\ UNCHANGED <<backend, shopping_carts, cart_items, orders, order_items, table, nCarts, nAdds, nCheckouts, added, ret>>

\* CheckoutCart: INSERT INTO order_items, once per line read
Store_InsertItems(t) ==
  /\ call[t].op = "checkout" /\ call[t].pc = "insertItems"
  /\ call' = [call EXCEPT ![t].pc = "delete"]
  /\ UNCHANGED <<backend, shopping_carts, cart_items, orders, order_items, table, nCarts, nAdds, nCheckouts, added, ret>>

\* a row of the cart is locked by another open transaction
RowLocked(t, ids) ==
  \E u \in Tasks \ {t} :
    \/ /\ call[u].op = "add"
       /\ call[u].pc \in {"touch", "commit"}
       /\ call[u].w.kind = "update"
       /\ <<call[u].cart, call[u].product, call[u].w.id>> \in ids
    \/ /\ call[u].op = "checkout"
       /\ call[u].pc = "commit"
       /\ call[u].del \cap ids # {}

\* CheckoutCart: DELETE FROM cart_items WHERE shopping_cart_id = $1; the
\* statement takes the rows committed when it runs
Store_Delete(t) ==
  /\ call[t].op = "checkout" /\ call[t].pc = "delete"
  /\ LET ids == {RowKey(r) : r \in RowsOf(call[t].cart)}
     IN /\ ~RowLocked(t, ids)
        /\ call' = [call EXCEPT ![t].pc = "commit", ![t].del = ids]
  /\ UNCHANGED <<backend, shopping_carts, cart_items, orders, order_items, table, nCarts, nAdds, nCheckouts, added, ret>>

\* the lines the cart lost: their additions are no longer in the cart
Forget(c, gone) ==
  [added EXCEPT ![c] = [p \in ProductIds |-> IF p \in gone THEN 0 ELSE added[c][p]]]

\* CheckoutCart: Commit
Store_CheckoutCommit(t) ==
  /\ call[t].op = "checkout" /\ call[t].pc = "commit" /\ backend = "sql"
  /\ orders' = orders \cup {OrderOf(t)}
  /\ order_items' = order_items \cup OrderItemsOf(t)
  /\ cart_items' = {r \in cart_items : RowKey(r) \notin call[t].del}
  /\ added' = Forget(call[t].cart, {k[2] : k \in call[t].del})
  /\ Finish(t, "ok")
  /\ UNCHANGED <<backend, shopping_carts, table, nCarts, nAdds, nCheckouts>>

\* the statements the transaction has executed so far
Executed(t) ==
  [orders |-> IF call[t].op = "checkout" /\ call[t].pc \in {"insertItems", "delete", "commit"}
              THEN {OrderOf(t)} ELSE {},
   order_items |-> IF call[t].op = "checkout" /\ call[t].pc \in {"delete", "commit"}
                   THEN OrderItemsOf(t) ELSE {},
   cart_items |-> IF call[t].op = "add" THEN Written(t)
                  ELSE {r \in cart_items : RowKey(r) \notin call[t].del}]
\* statements that take effect without the transaction
NoTransaction(t) ==
  /\ orders' = orders \cup Executed(t).orders
  /\ order_items' = order_items \cup Executed(t).order_items
  /\ cart_items' = Executed(t).cart_items
\* defer tx.Rollback(): nothing the transaction executed takes effect
Rollback(t) ==
  /\ orders' = orders
  /\ order_items' = order_items
  /\ cart_items' = cart_items

\* a statement or the commit returns an error
Store_Fail(t) ==
  /\ backend = "sql"
  /\ Active(t)
  /\ Rollback(t)
  /\ Finish(t, "error")
  /\ UNCHANGED <<backend, shopping_carts, table, nCarts, nAdds, nCheckouts, added>>

\* ---- the document store --------------------------------------------------
RECURSIVE ItemCount(_)
ItemCount(items) ==
  IF items = <<>> THEN 0 ELSE Head(items).quantity + ItemCount(Tail(items))
RECURSIVE TotalAmount(_)
TotalAmount(items) ==
  IF items = <<>> THEN 0
  ELSE Head(items).quantity * Head(items).price + TotalAmount(Tail(items))

\* CreateCart: PutItem of an empty record under a new uuid
DynamoDBStore_CreateCartIn(ids, cust) ==
  /\ backend = "ddb"
  /\ nCarts < Cardinality(ids)
  /\ nCarts' = nCarts + 1
  /\ table' = [table EXCEPT ![NewCartId] =
        [NoRecord EXCEPT !.exists = TRUE, !.customer_id = cust,
                         !.created_at = nAdds, !.updated_at = nAdds,
                         !.expiration_time = nAdds + CartTTL]]
  /\ UNCHANGED <<backend, shopping_carts, cart_items, orders, order_items, call, ret, nAdds, nCheckouts, added>>

DynamoDBStore_CreateCart(cust) == DynamoDBStore_CreateCartIn(CartIds, cust)

\* AddOrUpdateItem: GetItem with ConsistentRead
DynamoDBStore_AddOrUpdateItem(t, c, p, q, fail) ==
  /\ backend = "ddb"
  /\ FreeTask(t)
  /\ nAdds < MaxAdds
  /\ nAdds' = nAdds + 1
  /\ IF fail THEN Refuse("add", c, "error")
     ELSE IF ~table[c].exists THEN Refuse("add", c, "CartNotFound")
     ELSE /\ call' = [call EXCEPT ![t] =
                [NoCall EXCEPT !.op = "add", !.pc = "put", !.cart = c, !.product = p,
                               !.quantity = q, !.n = nAdds + 1,
                               !.rec = table[c]]]
          /\ UNCHANGED ret
  /\ UNCHANGED <<backend, shopping_carts, cart_items, orders, order_items, table, nCarts, nCheckouts, added>>

\* AddOrUpdateItem: the record with the line merged and the totals recomputed
MergedRepriced(rec, p, q, now) ==
  LET kept == SelectSeq(rec.items, LAMBDA l : l.product # p)
      old == SelectSeq(rec.items, LAMBDA l : l.product = p)
      items == Append(kept, [product |-> p,
                             quantity |-> q + (IF old = <<>> THEN 0 ELSE old[1].quantity),
                             price |-> IF p \in DOMAIN products THEN products[p]
                                       ELSE ProductPrice(p)])
  IN [rec EXCEPT !.items = items, !.item_count = ItemCount(items),
                 !.total_amount = TotalAmount(items), !.updated_at = now]
MergedStale(rec, p, q, now) ==
  LET found == {i \in 1..Len(rec.items) : rec.items[i].product = p}
      first == CHOOSE i \in found : \A j \in found : i <= j
      items == IF found # {}
               THEN [rec.items EXCEPT ![first].quantity = @ + q]
               ELSE Append(rec.items, [product |-> p, quantity |-> q,
                                       price |-> ProductPrice(p)])
  IN [rec EXCEPT !.items = items, !.item_count = ItemCount(rec.items),
                 !.total_amount = TotalAmount(rec.items), !.updated_at = now]
Merged(rec, p, q, now) ==
  LET found == {i \in 1..Len(rec.items) : rec.items[i].product = p}
      first == CHOOSE i \in found : \A j \in found : i <= j
      items == IF found # {}
               THEN [rec.items EXCEPT ![first].quantity = @ + q]
               ELSE Append(rec.items, [product |-> p, quantity |-> q,
                                       price |-> ProductPrice(p)])
  IN [rec EXCEPT !.items = items, !.item_count = ItemCount(items),
                 !.total_amount = TotalAmount(items), !.updated_at = now]

\* AddOrUpdateItem: PutItem of the whole record
DynamoDBStore_Put(t) ==
  /\ call[t].op = "add" /\ call[t].pc = "put"
  /\ table' = [table EXCEPT ![call[t].cart] =
                 Merged(call[t].rec, call[t].product, call[t].quantity, call[t].n)]
  /\ added' = [added EXCEPT ![call[t].cart][call[t].product] = @ + call[t].quantity]
  /\ Finish(t, "ok")
  /\ UNCHANGED <<backend, shopping_carts, cart_items, orders, order_items, nCarts, nAdds, nCheckouts>>

\* CheckoutCart: GetItem with ConsistentRead, ErrEmptyCart, uuid of the order
DynamoDBStore_CheckoutCartUpTo(lim, t, c, fail) ==
  /\ backend = "ddb"
  /\ FreeTask(t)
  /\ nCheckouts < lim
  /\ nCheckouts' = nCheckouts + 1
  /\ IF fail THEN Refuse("checkout", c, "error")
     ELSE IF ~table[c].exists THEN Refuse("checkout", c, "CartNotFound")
     ELSE IF EmptyCart(Len(table[c].items)) THEN Refuse("checkout", c, "EmptyCart")
     ELSE /\ call' = [call EXCEPT ![t] =
                [NoCall EXCEPT !.op = "checkout", !.pc = "deleteItem", !.cart = c,
                               !.n = nCheckouts + 1]]
          /\ UNCHANGED ret
  /\ UNCHANGED <<backend, shopping_carts, cart_items, orders, order_items, table, nCarts, nAdds, added>>

\* CheckoutCart: DeleteItem of the cart record
DynamoDBStore_CheckoutCart(t, c, fail) ==
  DynamoDBStore_CheckoutCartUpTo(MaxCheckouts, t, c, fail)

DynamoDBStore_Delete(t) ==
  /\ call[t].op = "checkout" /\ call[t].pc = "deleteItem"
  /\ table' = [table EXCEPT ![call[t].cart] = NoRecord]
  /\ added' = Forget(call[t].cart, ProductIds)
  /\ Finish(t, "ok")
  /\ UNCHANGED <<backend, shopping_carts, cart_items, orders, order_items, nCarts, nAdds, nCheckouts>>

\* PutItem or DeleteItem returns an error
DynamoDBStore_FailAfterDelete(t) ==
  /\ backend = "ddb"
  /\ Active(t)
  /\ Finish(t, "error")
  /\ table' = [table EXCEPT ![call[t].cart] = NoRecord]
  /\ UNCHANGED <<backend, shopping_carts, cart_items, orders, order_items, nCarts, nAdds, nCheckouts, added>>
DynamoDBStore_Fail(t) ==
  /\ backend = "ddb"
  /\ Active(t)
  /\ Finish(t, "error")
  /\ UNCHANGED <<backend, shopping_carts, cart_items, orders, order_items, table, nCarts, nAdds, nCheckouts, added>>

\* ------------------------------------------------------------------------
\* the requests that get past validation, and those that get published too.
\* Any other request is answered and leaves the orders state as it was
\* (C31 and C32 follow those under SpecEnv and SpecAsync): a step that
\* [NextOrders]_vars has in any case.
Accepted == {p \in Payloads : ValidPayload(p)}
Published == {c \in AsyncCases : AsyncOutcome(c[1], c[2]) = "queued"}

\* the whole orders service: both HTTP endpoints and the order processor
NextOrders ==
  \/ (\E r \in SyncReqs, p \in Accepted : CreateOrderSync(r, p)) /\ UNCHANGED <<cartVars, auxVars>>
  \/ (\E r \in SyncReqs : PayAcquire(r)) /\ UNCHANGED <<cartVars, auxVars>>
  \/ (\E r \in SyncReqs : PayTimer(r)) /\ UNCHANGED <<cartVars, auxVars>>
  \/ (\E r \in SyncReqs : PayRelease(r)) /\ UNCHANGED <<cartVars, auxVars>>
  \/ (\E r \in SyncReqs : SyncRespond(r)) /\ UNCHANGED <<cartVars, auxVars>>
  \/ (\E r \in SyncReqs : PayPanic(r)) /\ UNCHANGED <<cartVars, auxVars>>
  \/ (\E c \in Published : CreateOrderAsync(c[1], c[2])) /\ UNCHANGED <<cartVars, auxVars>>
  \/ (\E k \in {"badEnvelope", "badOrder"} : ForeignMessage(k)) /\ UNCHANGED <<cartVars, auxVars>>
  \/ (\E B \in SUBSET Msgs : pollLoop(B)) /\ UNCHANGED <<cartVars, auxVars>>
  \/ (\E m \in Msgs, ok \in BOOLEAN : MsgDropBad(m, ok)) /\ UNCHANGED <<cartVars, auxVars>>
  \/ (\E m \in Msgs : MsgAcquire(m)) /\ UNCHANGED <<cartVars, auxVars>>
  \/ (\E m \in Msgs : MsgPaid(m)) /\ UNCHANGED <<cartVars, auxVars>>
  \/ (\E m \in Msgs, ok \in BOOLEAN : MsgAck(m, ok)) /\ UNCHANGED <<cartVars, auxVars>>
  \/ (\E m \in Msgs : MsgPanic(m)) /\ UNCHANGED <<cartVars, auxVars>>
  \/ (\E m \in Msgs : VisibilityTimeout(m)) /\ UNCHANGED <<cartVars, auxVars>>
  \/ ProcessExit /\ UNCHANGED <<cartVars, auxVars>>
  \/ Crash /\ UNCHANGED <<cartVars, auxVars>>

\* main.go as it registers the product and order handlers only: the process
\* has no cart store, so there is no cart table, record or call
CartNotDeployed ==
  /\ backend = "none"
  /\ shopping_carts = <<>>
  /\ cart_items = {}
  /\ orders = {}
  /\ order_items = {}
  /\ table = <<>>
  /\ call = <<>>
  /\ ret = <<>>
  /\ nCarts = 0
  /\ nAdds = 0
  /\ nCheckouts = 0
  /\ added = <<>>
  /\ products = <<>>
  /\ replica = <<>>
  /\ got = <<>>
  /\ failed = {}
  /\ addedAt = <<>>
  /\ snaps = <<>>

\* the orders service starts
InitOrdersOnly == InitOrders /\ CartNotDeployed

SpecOrders == InitOrdersOnly /\ [][NextOrders]_vars

\* the service when only POST /orders/async receives requests: the queue and
\* the order processor
NextQueue ==
  \/ (\E c \in AsyncCases : CreateOrderAsync(c[1], c[2])) /\ UNCHANGED <<cartVars, auxVars>>
  \/ (\E k \in {"badEnvelope", "badOrder"} : ForeignMessage(k)) /\ UNCHANGED <<cartVars, auxVars>>
  \/ (\E B \in SUBSET Msgs : pollLoop(B)) /\ UNCHANGED <<cartVars, auxVars>>
  \/ (\E m \in Msgs, ok \in BOOLEAN : MsgDropBad(m, ok)) /\ UNCHANGED <<cartVars, auxVars>>
  \/ (\E m \in Msgs : MsgAcquire(m)) /\ UNCHANGED <<cartVars, auxVars>>
  \/ (\E m \in Msgs : MsgPaid(m)) /\ UNCHANGED <<cartVars, auxVars>>
  \/ (\E m \in Msgs, ok \in BOOLEAN : MsgAck(m, ok)) /\ UNCHANGED <<cartVars, auxVars>>
  \/ (\E m \in Msgs : MsgPanic(m)) /\ UNCHANGED <<cartVars, auxVars>>
  \/ (\E m \in Msgs : VisibilityTimeout(m)) /\ UNCHANGED <<cartVars, auxVars>>
  \/ ProcessExit /\ UNCHANGED <<cartVars, auxVars>>
  \/ Crash /\ UNCHANGED <<cartVars, auxVars>>

\* the scheduling the runtime and the queue provide: every goroutine that can
\* take a step eventually takes it, the poll loop keeps receiving, visibility
\* windows elapse, and a panicking process exits and is restarted
FairQueue ==
  /\ \A m \in Msgs :
       /\ WF_vars((\E B \in SUBSET Msgs : m \in B /\ pollLoop(B)) /\ UNCHANGED <<cartVars, auxVars>>)
       /\ WF_vars(VisibilityTimeout(m) /\ UNCHANGED <<cartVars, auxVars>>)
       /\ WF_vars(MsgAcquire(m) /\ UNCHANGED <<cartVars, auxVars>>)
       /\ WF_vars(MsgPaid(m) /\ UNCHANGED <<cartVars, auxVars>>)
       /\ WF_vars((\E ok \in BOOLEAN : MsgAck(m, ok)) /\ UNCHANGED <<cartVars, auxVars>>)
       /\ WF_vars((\E ok \in BOOLEAN : MsgDropBad(m, ok)) /\ UNCHANGED <<cartVars, auxVars>>)
  /\ WF_vars(ProcessExit /\ UNCHANGED <<cartVars, auxVars>>)

FairSpecQueue == InitOrdersOnly /\ [][NextQueue]_vars /\ FairQueue

\* the orders service while no goroutine faults, the process stays up, the
\* queue holds orders only and the deletes take effect
NextGate ==
  \/ (\E r \in SyncReqs, p \in Accepted : CreateOrderSync(r, p)) /\ UNCHANGED <<cartVars, auxVars>>
  \/ (\E r \in SyncReqs : PayAcquire(r)) /\ UNCHANGED <<cartVars, auxVars>>
  \/ (\E r \in SyncReqs : PayTimer(r)) /\ UNCHANGED <<cartVars, auxVars>>
  \/ (\E r \in SyncReqs : PayRelease(r)) /\ UNCHANGED <<cartVars, auxVars>>
  \/ (\E r \in SyncReqs : SyncRespond(r)) /\ UNCHANGED <<cartVars, auxVars>>
  \/ (\E c \in Published : CreateOrderAsync(c[1], c[2])) /\ UNCHANGED <<cartVars, auxVars>>
  \/ (\E B \in SUBSET Msgs : pollLoop(B)) /\ UNCHANGED <<cartVars, auxVars>>
  \/ (\E m \in Msgs : MsgAcquire(m)) /\ UNCHANGED <<cartVars, auxVars>>
  \/ (\E m \in Msgs : MsgPaid(m)) /\ UNCHANGED <<cartVars, auxVars>>
  \/ (\E m \in Msgs : MsgAck(m, TRUE)) /\ UNCHANGED <<cartVars, auxVars>>
  \/ (\E m \in Msgs : VisibilityTimeout(m)) /\ UNCHANGED <<cartVars, auxVars>>

\* the scheduling of the Go runtime: a goroutine that can run does run, a
\* timer fires, and the senders blocked on a full channel are served in the
\* order they arrived, so a goroutine waiting for a slot is not overtaken
\* forever (strong fairness of the acquisition)
FairGate ==
  /\ \A r \in SyncReqs :
       /\ SF_ordersVars(PayAcquire(r))
       /\ WF_ordersVars(PayTimer(r))
       /\ WF_ordersVars(PayRelease(r))
       /\ WF_ordersVars(SyncRespond(r))
  /\ \A m \in Msgs :
       /\ SF_ordersVars(MsgAcquire(m))
       /\ WF_ordersVars(MsgPaid(m))
       /\ WF_ordersVars(MsgAck(m, TRUE))

FairSpecGate == InitOrdersOnly /\ [][NextGate]_vars /\ FairGate

\* the orders service started with any value of WORKER_COUNT; a process that
\* ends is followed by one that runs init again
InitEnv == InitOrdersWith(AnyWorkerEnv) /\ SideNotDeployed /\ CartNotDeployed

NextEnv ==
  \/ (\E r \in SyncReqs, p \in Payloads : CreateOrderSync(r, p)) /\ UNCHANGED <<cartVars, auxVars>>
  \/ (\E r \in SyncReqs : PayAcquire(r)) /\ UNCHANGED <<cartVars, auxVars>>
  \/ (\E r \in SyncReqs : PayTimer(r)) /\ UNCHANGED <<cartVars, auxVars>>
  \/ (\E r \in SyncReqs : PayRelease(r)) /\ UNCHANGED <<cartVars, auxVars>>
  \/ (\E r \in SyncReqs : SyncRespond(r)) /\ UNCHANGED <<cartVars, auxVars>>
  \/ (\E r \in SyncReqs : PayPanic(r)) /\ UNCHANGED <<cartVars, auxVars>>
  \/ (\E c \in AsyncCases : CreateOrderAsync(c[1], c[2])) /\ UNCHANGED <<cartVars, auxVars>>
  \/ (\E B \in SUBSET Msgs : pollLoop(B)) /\ UNCHANGED <<cartVars, auxVars>>
  \/ (\E m \in Msgs : MsgAcquire(m)) /\ UNCHANGED <<cartVars, auxVars>>
  \/ (\E m \in Msgs : MsgPaid(m)) /\ UNCHANGED <<cartVars, auxVars>>
  \/ (\E m \in Msgs : MsgAck(m, TRUE)) /\ UNCHANGED <<cartVars, auxVars>>
  \/ ProcessExit /\ UNCHANGED <<cartVars, auxVars>>
  \/ Crash /\ UNCHANGED <<cartVars, auxVars>>

SpecEnv == InitEnv /\ [][NextEnv]_vars

\* CreateOrderAsync answers its caller: the body, the step of the publish that
\* failed and the status written with c.JSON
AsyncAnswers(p, f) ==
  asyncRet' = [body |-> p, fault |-> f, outcome |-> AsyncOutcome(p, f)]

\* the asynchronous path, handler and order processor, without process exits,
\* each request leaving its answer
NextAsync ==
  \/ (\E c \in AsyncCases : CreateOrderAsync(c[1], c[2]) /\ AsyncAnswers(c[1], c[2]))
        /\ UNCHANGED <<cartVars, timeVars, invocation, store>>
  \/ (\E B \in SUBSET Msgs : pollLoop(B)) /\ UNCHANGED <<cartVars, auxVars>>
  \/ (\E m \in Msgs : MsgAcquire(m)) /\ UNCHANGED <<cartVars, auxVars>>
  \/ (\E m \in Msgs : MsgPaid(m)) /\ UNCHANGED <<cartVars, auxVars>>
  \/ (\E m \in Msgs, ok \in BOOLEAN : MsgAck(m, ok)) /\ UNCHANGED <<cartVars, auxVars>>
  \/ (\E m \in Msgs : VisibilityTimeout(m)) /\ UNCHANGED <<cartVars, auxVars>>

InitAsync ==
  /\ InitOrdersWith(WorkerEnv)
  /\ CartNotDeployed
  /\ asyncRet = NoAnswer
  /\ invocation = <<>>
  /\ store = <<>>

SpecAsync == InitAsync /\ [][NextAsync]_vars

\* ------------------------------------------------------------------------
\* A burst of synchronous submissions, with the time the payments take
\* ------------------------------------------------------------------------
\* the clock is followed until a burst can have been served one by one
Horizon == PaymentDelay * MaxBurst + 1

InitBurst ==
  /\ workerEnv \in WorkerEnv
  /\ workerCount = InitWorkerCount(workerEnv)
  /\ paymentSemaphore = 0
  /\ syncReq = [r \in Burst |-> "idle"]
  /\ payTask = [r \in Burst |-> "none"]
  /\ resultChan = [r \in Burst |-> 0]
  /\ queue = [m \in Msgs |-> [kind |-> "ok", st |-> "absent", rc |-> 0]]
  /\ msgTask = [m \in Msgs |-> NoTask]
  /\ crashes = 0
  /\ hist = [m \in Msgs |-> [ackLost |-> FALSE, owed |-> FALSE]]
  /\ clock = 0
  /\ due = [r \in Burst |-> -1]
  /\ doneAt = [r \in Burst |-> -1]
  /\ SideNotDeployed
  /\ CartNotDeployed

\* a second passes
Tick ==
  /\ clock < Horizon
  /\ clock' = clock + 1
  /\ UNCHANGED <<ordersVars, cartVars, due, doneAt, sideVars>>

\* a submission of the burst arrives; each is made once
BurstSubmit(r) ==
  /\ due[r] = -1
  /\ CreateOrderSyncFor(r, "ok")
  /\ UNCHANGED <<cartVars, auxVars>>

\* time.NewTimer(3 * time.Second), made once the slot is taken
BurstAcquire(r) ==
  /\ PayAcquire(r)
  /\ due' = [due EXCEPT ![r] = clock + PaymentDelay]
  /\ UNCHANGED <<cartVars, clock, doneAt, sideVars>>

\* <-timer.C: the timer does not fire before its time
TimerSkipped(r) == TRUE
TimerFired(r) == clock >= due[r]

BurstTimer(r) ==
  /\ TimerFired(r)
  /\ PayTimer(r)
  /\ UNCHANGED <<cartVars, auxVars>>

BurstRelease(r) == PayRelease(r) /\ UNCHANGED <<cartVars, auxVars>>

\* the handler answers 200
BurstRespond(r) ==
  /\ SyncRespond(r)
  /\ doneAt' = [doneAt EXCEPT ![r] = clock]
  /\ UNCHANGED <<cartVars, clock, due, sideVars>>

NextBurst ==
  \/ Tick
  \/ \E r \in Burst : BurstSubmit(r)
  \/ \E r \in Burst : BurstAcquire(r)
  \/ \E r \in Burst : BurstTimer(r)
  \/ \E r \in Burst : BurstRelease(r)
  \/ \E r \in Burst : BurstRespond(r)

SpecBurst == InitBurst /\ [][NextBurst]_vars

\* the cart service, on either store
\* ---- reads of a cart ------------------------------------------------------
\* Store.GetCartWithItems: GetCart, then the join of cart_items and products,
\* two statements outside any transaction
Store_GetCartWithItems(t, c, fail) ==
  /\ backend = "sql"
  /\ FreeTask(t)
  /\ IF fail THEN Refuse("get", c, "error") /\ UNCHANGED got
     ELSE IF ~shopping_carts[c].exists
     THEN /\ Refuse("get", c, "CartNotFound")
          /\ got' = [NoGot EXCEPT !.cart = c, !.res = "CartNotFound"]
     ELSE /\ call' = [call EXCEPT ![t] =
                [NoCall EXCEPT !.op = "get", !.pc = "getItems", !.cart = c,
                               !.rec = [NoRecord EXCEPT
                                          !.exists = TRUE,
                                          !.customer_id = shopping_carts[c].customer_id,
                                          !.created_at = shopping_carts[c].created_at,
                                          !.updated_at = shopping_carts[c].updated_at]]]
          /\ UNCHANGED <<ret, got>>
  /\ UNCHANGED <<backend, shopping_carts, cart_items, orders, order_items, table,
                 nCarts, nAdds, nCheckouts, added, products, replica>>

Store_GetItems(t) ==
  /\ call[t].op = "get" /\ call[t].pc = "getItems" /\ backend = "sql"
  /\ got' = [cart |-> call[t].cart, res |-> "ok", header |-> Header(call[t].rec),
             lines |-> SqlLines(cart_items, call[t].cart)]
  /\ Finish(t, "ok")
  /\ UNCHANGED <<backend, shopping_carts, cart_items, orders, order_items, table,
                 nCarts, nAdds, nCheckouts, added, products, replica>>

\* DynamoDBStore.GetCartWithItems: one GetItem with ConsistentRead false, which
\* answers from a copy of the table that may lag behind the writes
DynamoDBStore_GetCartWithItems(c, fail) ==
  /\ backend = "ddb"
  /\ IF fail THEN Refuse("get", c, "error") /\ UNCHANGED got
     ELSE IF ~replica[c].exists
     THEN /\ Refuse("get", c, "CartNotFound")
          /\ got' = [NoGot EXCEPT !.cart = c, !.res = "CartNotFound"]
     ELSE /\ Refuse("get", c, "ok")
          /\ got' = [cart |-> c, res |-> "ok", header |-> Header(replica[c]),
                     lines |-> RecLines(replica[c])]
  /\ UNCHANGED <<backend, shopping_carts, cart_items, orders, order_items, table,
                 nCarts, nAdds, nCheckouts, added, products, replica>>

\* the writes made to a record so far reach the copy the relaxed reads use
Replicate(c) ==
  /\ backend = "ddb"
  /\ replica[c] # table[c]
  /\ replica' = [replica EXCEPT ![c] = table[c]]
  /\ UNCHANGED <<backend, shopping_carts, cart_items, orders, order_items, table, call, ret,
                 nCarts, nAdds, nCheckouts, added, products, got>>

NextCart ==
  \/ (\E cust \in Customers : Store_CreateCart(cust)) /\ UNCHANGED <<ordersVars, auxVars, readVars, failed, addedAt, snaps>>
  \/ (\E t \in Tasks, c \in CartIds, p \in ProductIds, q \in Quantities, fail \in BOOLEAN :
        Store_AddOrUpdateItem(t, c, p, q, fail)) /\ UNCHANGED <<ordersVars, auxVars, readVars, failed, addedAt, snaps>>
  \/ (\E t \in Tasks : Store_Upsert(t)) /\ UNCHANGED <<ordersVars, auxVars, readVars, failed, addedAt, snaps>>
  \/ (\E t \in Tasks : Store_Touch(t)) /\ UNCHANGED <<ordersVars, auxVars, readVars, failed, addedAt, snaps>>
  \/ (\E t \in Tasks : Store_AddCommit(t)) /\ UNCHANGED <<ordersVars, auxVars, readVars, failed, addedAt, snaps>>
  \/ (\E t \in Tasks, c \in CartIds, fail \in BOOLEAN :
        Store_CheckoutCart(t, c, fail)) /\ UNCHANGED <<ordersVars, auxVars, readVars, failed, addedAt, snaps>>
  \/ (\E t \in Tasks : Store_ReadItems(t)) /\ UNCHANGED <<ordersVars, auxVars, readVars, failed, addedAt, snaps>>
  \/ (\E t \in Tasks : Store_InsertOrder(t)) /\ UNCHANGED <<ordersVars, auxVars, readVars, failed, addedAt, snaps>>
  \/ (\E t \in Tasks : Store_InsertItems(t)) /\ UNCHANGED <<ordersVars, auxVars, readVars, failed, addedAt, snaps>>
  \/ (\E t \in Tasks : Store_Delete(t)) /\ UNCHANGED <<ordersVars, auxVars, readVars, failed, addedAt, snaps>>
  \/ (\E t \in Tasks : Store_CheckoutCommit(t)) /\ UNCHANGED <<ordersVars, auxVars, readVars, failed, addedAt, snaps>>
  \/ (\E t \in Tasks : Store_Fail(t)) /\ UNCHANGED <<ordersVars, auxVars, readVars, failed, addedAt, snaps>>
  \/ (\E cust \in Customers : DynamoDBStore_CreateCart(cust)) /\ UNCHANGED <<ordersVars, auxVars, readVars, failed, addedAt, snaps>>
  \/ (\E t \in Tasks, c \in CartIds, p \in ProductIds, q \in Quantities, fail \in BOOLEAN :
        DynamoDBStore_AddOrUpdateItem(t, c, p, q, fail)) /\ UNCHANGED <<ordersVars, auxVars, readVars, failed, addedAt, snaps>>
  \/ (\E t \in Tasks : DynamoDBStore_Put(t)) /\ UNCHANGED <<ordersVars, auxVars, readVars, failed, addedAt, snaps>>
  \/ (\E t \in Tasks, c \in CartIds, fail \in BOOLEAN :
        DynamoDBStore_CheckoutCart(t, c, fail)) /\ UNCHANGED <<ordersVars, auxVars, readVars, failed, addedAt, snaps>>
  \/ (\E t \in Tasks : DynamoDBStore_Delete(t)) /\ UNCHANGED <<ordersVars, auxVars, readVars, failed, addedAt, snaps>>
  \/ (\E t \in Tasks : DynamoDBStore_Fail(t)) /\ UNCHANGED <<ordersVars, auxVars, readVars, failed, addedAt, snaps>>

\* the cart service starts on either store; no order is submitted
InitCartOnly == InitCart /\ InitOrders /\ workerEnv.kind = "unset"

SpecCart == InitCartOnly /\ [][NextCart]_vars

\* the cart service with the reads of a cart
NextReads ==
  \/ NextCart
  \/ (\E t \in Tasks, c \in CartIds, fail \in BOOLEAN :
        Store_GetCartWithItems(t, c, fail)) /\ UNCHANGED <<ordersVars, auxVars, failed, addedAt, snaps>>
  \/ (\E t \in Tasks : Store_GetItems(t)) /\ UNCHANGED <<ordersVars, auxVars, failed, addedAt, snaps>>
  \/ (\E c \in CartIds, fail \in BOOLEAN :
        DynamoDBStore_GetCartWithItems(c, fail)) /\ UNCHANGED <<ordersVars, auxVars, failed, addedAt, snaps>>
  \/ (\E c \in CartIds : Replicate(c)) /\ UNCHANGED <<ordersVars, auxVars, failed, addedAt, snaps>>

SpecReads == InitCartOnly /\ [][NextReads]_vars

\* the stored cart c: its header and its lines as a reader sees them
Snapshot(c) ==
  IF backend = "sql"
  THEN [header |-> Header(shopping_carts[c]), lines |-> SqlLines(cart_items, c)]
  ELSE [header |-> Header(table[c]), lines |-> RecLines(table[c])]
\* the states the carts have been in, after this step
Snapped == [c \in CartIds |-> snaps[c] \cup {Snapshot(c)'}]

\* the cart service with the reads of a cart, recording the states of the carts
NextSnap ==
  \/ (\E cust \in Customers : Store_CreateCart(cust))
        /\ UNCHANGED <<ordersVars, auxVars, readVars, failed, addedAt>> /\ snaps' = Snapped
  \/ (\E t \in Tasks, c \in CartIds, p \in ProductIds, q \in Quantities, fail \in BOOLEAN :
        Store_AddOrUpdateItem(t, c, p, q, fail))
        /\ UNCHANGED <<ordersVars, auxVars, readVars, failed, addedAt>> /\ snaps' = Snapped
  \/ (\E t \in Tasks : Store_Upsert(t))
        /\ UNCHANGED <<ordersVars, auxVars, readVars, failed, addedAt>> /\ snaps' = Snapped
  \/ (\E t \in Tasks : Store_Touch(t))
        /\ UNCHANGED <<ordersVars, auxVars, readVars, failed, addedAt>> /\ snaps' = Snapped
  \/ (\E t \in Tasks : Store_AddCommit(t))
        /\ UNCHANGED <<ordersVars, auxVars, readVars, failed, addedAt>> /\ snaps' = Snapped
  \/ (\E t \in Tasks, c \in CartIds, fail \in BOOLEAN :
        Store_CheckoutCart(t, c, fail))
        /\ UNCHANGED <<ordersVars, auxVars, readVars, failed, addedAt>> /\ snaps' = Snapped
  \/ (\E t \in Tasks : Store_ReadItems(t))
        /\ UNCHANGED <<ordersVars, auxVars, readVars, failed, addedAt>> /\ snaps' = Snapped
  \/ (\E t \in Tasks : Store_InsertOrder(t))
        /\ UNCHANGED <<ordersVars, auxVars, readVars, failed, addedAt>> /\ snaps' = Snapped
  \/ (\E t \in Tasks : Store_InsertItems(t))
        /\ UNCHANGED <<ordersVars, auxVars, readVars, failed, addedAt>> /\ snaps' = Snapped
  \/ (\E t \in Tasks : Store_Delete(t))
        /\ UNCHANGED <<ordersVars, auxVars, readVars, failed, addedAt>> /\ snaps' = Snapped
  \/ (\E t \in Tasks : Store_CheckoutCommit(t))
        /\ UNCHANGED <<ordersVars, auxVars, readVars, failed, addedAt>> /\ snaps' = Snapped
  \/ (\E t \in Tasks : Store_Fail(t))
        /\ UNCHANGED <<ordersVars, auxVars, readVars, failed, addedAt>> /\ snaps' = Snapped
  \/ (\E cust \in Customers : DynamoDBStore_CreateCart(cust))
        /\ UNCHANGED <<ordersVars, auxVars, readVars, failed, addedAt>> /\ snaps' = Snapped
  \/ (\E t \in Tasks, c \in CartIds, p \in ProductIds, q \in Quantities, fail \in BOOLEAN :
        DynamoDBStore_AddOrUpdateItem(t, c, p, q, fail))
        /\ UNCHANGED <<ordersVars, auxVars, readVars, failed, addedAt>> /\ snaps' = Snapped
  \/ (\E t \in Tasks : DynamoDBStore_Put(t))
        /\ UNCHANGED <<ordersVars, auxVars, readVars, failed, addedAt>> /\ snaps' = Snapped
  \/ (\E t \in Tasks, c \in CartIds, fail \in BOOLEAN :
        DynamoDBStore_CheckoutCart(t, c, fail))
        /\ UNCHANGED <<ordersVars, auxVars, readVars, failed, addedAt>> /\ snaps' = Snapped
  \/ (\E t \in Tasks : DynamoDBStore_Delete(t))
        /\ UNCHANGED <<ordersVars, auxVars, readVars, failed, addedAt>> /\ snaps' = Snapped
  \/ (\E t \in Tasks : DynamoDBStore_Fail(t))
        /\ UNCHANGED <<ordersVars, auxVars, readVars, failed, addedAt>> /\ snaps' = Snapped
  \/ (\E t \in Tasks, c \in CartIds, fail \in BOOLEAN :
        Store_GetCartWithItems(t, c, fail))
        /\ UNCHANGED <<ordersVars, auxVars, failed, addedAt>> /\ snaps' = Snapped
  \/ (\E t \in Tasks : Store_GetItems(t))
        /\ UNCHANGED <<ordersVars, auxVars, failed, addedAt>> /\ snaps' = Snapped
  \/ (\E c \in CartIds, fail \in BOOLEAN :
        DynamoDBStore_GetCartWithItems(c, fail))
        /\ UNCHANGED <<ordersVars, auxVars, failed, addedAt>> /\ snaps' = Snapped
  \/ (\E c \in CartIds : Replicate(c))
        /\ UNCHANGED <<ordersVars, auxVars, failed, addedAt>> /\ snaps' = Snapped

SpecSnap == InitCartOnly /\ [][NextSnap]_vars

\* the cart service when its callers make one call after the other: no call
\* starts while another one runs
Sequential == \A t \in Tasks : t > 1 => ~Active(t)

NextSeq == NextReads /\ Sequential'

SpecSeq == InitCartOnly /\ [][NextSeq]_vars

\* the prices a product can have in the catalog
Prices(p) == {ProductPrice(p), ProductPrice(p) + 50}

\* a cart has a line for product p
InSomeCart(p) ==
  \E c \in CartIds :
    \/ RowsFor(c, p) # {}
    \/ \E l \in RecLines(table[c]) : l.product = p

\* the price of a product that is in a cart is changed in table products, from
\* outside the service
UpdatePrice(p, v) ==
  /\ p \in DOMAIN products
  /\ InSomeCart(p)
  /\ v # products[p]
  /\ products' = [products EXCEPT ![p] = v]
  /\ UNCHANGED <<backend, shopping_carts, cart_items, orders, order_items, table, call, ret,
                 nCarts, nAdds, nCheckouts, added, replica, got>>

\* the catalog price at the time the call of t inserts its line
Inserts(t) ==
  IF backend = "sql"
  THEN call[t].w.kind = "insert"
  ELSE \A i \in 1..Len(call[t].rec.items) : call[t].rec.items[i].product # call[t].product
NoteInsert(t) ==
  IF Inserts(t) /\ call[t].product \in DOMAIN products
  THEN [addedAt EXCEPT ![call[t].cart][call[t].product] = products[call[t].product]]
  ELSE addedAt

\* the cart service while catalog prices change: calls that add one unit of a
\* product of the catalog, checkouts, and no failure of the stores
NextPrices ==
  \/ (\E cust \in Customers : Store_CreateCart(cust))
        /\ UNCHANGED <<ordersVars, auxVars, readVars, failed, addedAt, snaps>>
  \/ (\E t \in Tasks, c \in CartIds, p \in DOMAIN products, q \in {1}, fail \in {FALSE} :
        Store_AddOrUpdateItem(t, c, p, q, fail))
        /\ UNCHANGED <<ordersVars, auxVars, readVars, failed, addedAt, snaps>>
  \/ (\E t \in Tasks : Store_Upsert(t)) /\ UNCHANGED <<ordersVars, auxVars, readVars, failed, addedAt, snaps>>
  \/ (\E t \in Tasks : Store_Touch(t)) /\ UNCHANGED <<ordersVars, auxVars, readVars, failed, addedAt, snaps>>
  \/ (\E t \in Tasks : Store_AddCommit(t) /\ addedAt' = NoteInsert(t))
        /\ UNCHANGED <<ordersVars, auxVars, readVars, failed, snaps>>
  \/ (\E t \in Tasks, c \in CartIds, fail \in {FALSE} :
        Store_CheckoutCart(t, c, fail))
        /\ UNCHANGED <<ordersVars, auxVars, readVars, failed, addedAt, snaps>>
  \/ (\E t \in Tasks : Store_ReadItems(t)) /\ UNCHANGED <<ordersVars, auxVars, readVars, failed, addedAt, snaps>>
  \/ (\E t \in Tasks : Store_InsertOrder(t)) /\ UNCHANGED <<ordersVars, auxVars, readVars, failed, addedAt, snaps>>
  \/ (\E t \in Tasks : Store_InsertItems(t)) /\ UNCHANGED <<ordersVars, auxVars, readVars, failed, addedAt, snaps>>
  \/ (\E t \in Tasks : Store_Delete(t)) /\ UNCHANGED <<ordersVars, auxVars, readVars, failed, addedAt, snaps>>
  \/ (\E t \in Tasks : Store_CheckoutCommit(t)) /\ UNCHANGED <<ordersVars, auxVars, readVars, failed, addedAt, snaps>>
  \/ (\E cust \in Customers : DynamoDBStore_CreateCart(cust))
        /\ UNCHANGED <<ordersVars, auxVars, readVars, failed, addedAt, snaps>>
  \/ (\E t \in Tasks, c \in CartIds, p \in DOMAIN products, q \in {1}, fail \in {FALSE} :
        DynamoDBStore_AddOrUpdateItem(t, c, p, q, fail))
        /\ UNCHANGED <<ordersVars, auxVars, readVars, failed, addedAt, snaps>>
  \/ (\E t \in Tasks : DynamoDBStore_Put(t) /\ addedAt' = NoteInsert(t))
        /\ UNCHANGED <<ordersVars, auxVars, readVars, failed, snaps>>
  \/ (\E t \in Tasks, c \in CartIds, fail \in {FALSE} :
        DynamoDBStore_CheckoutCart(t, c, fail))
        /\ UNCHANGED <<ordersVars, auxVars, readVars, failed, addedAt, snaps>>
  \/ (\E t \in Tasks : DynamoDBStore_Delete(t)) /\ UNCHANGED <<ordersVars, auxVars, readVars, failed, addedAt, snaps>>
  \/ (\E p \in DOMAIN products : \E v \in Prices(p) : UpdatePrice(p, v))
        /\ UNCHANGED <<ordersVars, auxVars, failed, addedAt, snaps>>

SpecPrices == InitCartOnly /\ [][NextPrices]_vars

\* the document store, with one more CheckoutCart call than MaxCheckouts, so
\* that a checkout that failed can be followed by another one
MaxAttempts == MaxCheckouts + 1
\* the order ids of the checkouts that failed, after the call of t fails
Failed(t) ==
  IF call[t].op = "checkout" THEN failed \cup {call[t].n} ELSE failed

NextHazard ==
  \/ (\E cust \in Customers : DynamoDBStore_CreateCart(cust))
        /\ UNCHANGED <<ordersVars, auxVars, readVars, failed, addedAt, snaps>>
  \/ (\E t \in Tasks, c \in CartIds, p \in ProductIds, q \in Quantities, fail \in BOOLEAN :
        DynamoDBStore_AddOrUpdateItem(t, c, p, q, fail))
        /\ UNCHANGED <<ordersVars, auxVars, readVars, failed, addedAt, snaps>>
  \/ (\E t \in Tasks : DynamoDBStore_Put(t)) /\ UNCHANGED <<ordersVars, auxVars, readVars, failed, addedAt, snaps>>
  \/ (\E t \in Tasks, c \in CartIds, fail \in BOOLEAN :
        DynamoDBStore_CheckoutCartUpTo(MaxAttempts, t, c, fail))
        /\ UNCHANGED <<ordersVars, auxVars, readVars, failed, addedAt, snaps>>
  \/ (\E t \in Tasks : DynamoDBStore_Delete(t)) /\ UNCHANGED <<ordersVars, auxVars, readVars, failed, addedAt, snaps>>
  \/ (\E t \in Tasks : DynamoDBStore_Fail(t) /\ failed' = Failed(t))
        /\ UNCHANGED <<ordersVars, auxVars, readVars, addedAt, snaps>>

\* the relational store, with one more CheckoutCart call than MaxCheckouts, so
\* that two checkouts of a cart can run at the same time
NextTwice ==
  \/ (\E cust \in Customers : Store_CreateCart(cust)) /\ UNCHANGED <<ordersVars, auxVars, readVars, failed, addedAt, snaps>>
  \/ (\E t \in Tasks, c \in CartIds, p \in ProductIds, q \in Quantities, fail \in BOOLEAN :
        Store_AddOrUpdateItem(t, c, p, q, fail)) /\ UNCHANGED <<ordersVars, auxVars, readVars, failed, addedAt, snaps>>
  \/ (\E t \in Tasks : Store_Upsert(t)) /\ UNCHANGED <<ordersVars, auxVars, readVars, failed, addedAt, snaps>>
  \/ (\E t \in Tasks : Store_Touch(t)) /\ UNCHANGED <<ordersVars, auxVars, readVars, failed, addedAt, snaps>>
  \/ (\E t \in Tasks : Store_AddCommit(t)) /\ UNCHANGED <<ordersVars, auxVars, readVars, failed, addedAt, snaps>>
  \/ (\E t \in Tasks, c \in CartIds, fail \in BOOLEAN :
        Store_CheckoutCartUpTo(MaxAttempts, t, c, fail)) /\ UNCHANGED <<ordersVars, auxVars, readVars, failed, addedAt, snaps>>
  \/ (\E t \in Tasks : Store_ReadItems(t)) /\ UNCHANGED <<ordersVars, auxVars, readVars, failed, addedAt, snaps>>
  \/ (\E t \in Tasks : Store_InsertOrder(t)) /\ UNCHANGED <<ordersVars, auxVars, readVars, failed, addedAt, snaps>>
  \/ (\E t \in Tasks : Store_InsertItems(t)) /\ UNCHANGED <<ordersVars, auxVars, readVars, failed, addedAt, snaps>>
  \/ (\E t \in Tasks : Store_Delete(t)) /\ UNCHANGED <<ordersVars, auxVars, readVars, failed, addedAt, snaps>>
  \/ (\E t \in Tasks : Store_CheckoutCommit(t)) /\ UNCHANGED <<ordersVars, auxVars, readVars, failed, addedAt, snaps>>
  \/ (\E t \in Tasks : Store_Fail(t)) /\ UNCHANGED <<ordersVars, auxVars, readVars, failed, addedAt, snaps>>

InitTwice == InitCartOnly /\ backend = "sql"

SpecTwice == InitTwice /\ [][NextTwice]_vars

\* the cart service starts on the document store
InitHazard == InitCartOnly /\ backend = "ddb"

SpecHazard == InitHazard /\ [][NextHazard]_vars

\* ------------------------------------------------------------------------
\* lambda/payments_processor/main.go: handler
\* ------------------------------------------------------------------------
\* the messages an SNS record can carry: an order, a body that is not the JSON
\* of an order, an order without items
RecordKinds == {"ok", "badJson", "noItems"}
RECURSIVE SeqsUpTo(_, _)
SeqsUpTo(S, n) ==
  IF n = 0 THEN {<<>>}
  ELSE LET shorter == SeqsUpTo(S, n - 1)
       IN shorter \cup {Append(e, x) : e \in {q \in shorter : Len(q) = n - 1}, x \in S}
\* the events the function is invoked with
Events == SeqsUpTo(RecordKinds, MaxRecords)

\* json.Unmarshal of the message into Order
Unmarshals(k) == k # "badJson"
\* processPayment sleeps and returns nil
PaymentFails(k) == FALSE

\* the handler goes on to the record after the one in hand, or returns nil
\* after the last
NextRecord(inv) ==
  IF inv.record < Len(inv.snsEvent)
  THEN [inv EXCEPT !.record = @ + 1, !.pc = "parse"]
  ELSE [inv EXCEPT !.pc = "returned", !.ret = "ok"]

\* what the handler does with a record that fails: it returns the error
RecordSkipped(inv) == NextRecord(inv)
RecordFailed(inv) == [inv EXCEPT !.pc = "returned", !.ret = "error"]

\* lambda.Start(handler): the function is invoked with an event
Invoke(ev) ==
  /\ invocation.pc \in {"idle", "returned"}
  /\ invocation' = NextRecord([NoInvocation EXCEPT !.snsEvent = ev])
  /\ UNCHANGED <<asyncRet, store>>

ParseRecord ==
  /\ invocation.pc = "parse"
  /\ invocation' = IF Unmarshals(invocation.snsEvent[invocation.record])
                    THEN [invocation EXCEPT !.pc = "pay"]
                    ELSE RecordFailed(invocation)
  /\ UNCHANGED <<asyncRet, store>>

processPayment ==
  /\ invocation.pc = "pay"
  /\ LET paid == [invocation EXCEPT !.paid = Append(@, invocation.record)]
     IN invocation' = IF PaymentFails(invocation.snsEvent[invocation.record])
                      THEN RecordFailed(paid)
                      ELSE NextRecord(paid)
  /\ UNCHANGED <<asyncRet, store>>

NextLambda ==
  \/ (\E ev \in Events : Invoke(ev)) /\ UNCHANGED <<ordersVars, cartVars, timeVars>>
  \/ ParseRecord /\ UNCHANGED <<ordersVars, cartVars, timeVars>>
  \/ processPayment /\ UNCHANGED <<ordersVars, cartVars, timeVars>>

InitLambda ==
  /\ InitOrdersWith({[kind |-> "unset", val |-> 0]})
  /\ CartNotDeployed
  /\ asyncRet = <<>>
  /\ invocation = NoInvocation
  /\ store = <<>>

SpecLambda == InitLambda /\ [][NextLambda]_vars

\* ------------------------------------------------------------------------
\* product/store.go: Store.  Every method holds s.mu from its first statement
\* to its return, so a call is one step and calls of concurrent requests
\* interleave as steps.
\* ------------------------------------------------------------------------
\* names of products in requests; "" is a field left out
Names == {"", "a", "b"}
\* int32 ids; creations stop at MaxProducts, far from the width of int32
Ids == 1..MaxProducts
\* arguments of SeedBulk
BulkSizes == -1..MaxProducts

\* map write: s.products[id] = p
Assign(m, id, p) == [k \in DOMAIN m \cup {id} |-> IF k = id THEN p ELSE m[k]]

SeedSample ==
  /\ store' = [store EXCEPT !.products = Assign(@, 1, "Sample Product"),
                            !.nextID = IF @ <= 1 THEN 2 ELSE @,
                            !.op = "SeedSample", !.id = 0]
  /\ UNCHANGED <<asyncRet, invocation>>

\* SeedBulk: nextID after the load of n products
BulkNextIDKept(n) == store.nextID
BulkNextID(n) == n + 1

SeedBulk(n) ==
  /\ store' = IF n <= 0 THEN [store EXCEPT !.op = "SeedBulk", !.id = 0]
              ELSE [store EXCEPT !.products = [i \in 1..n |-> "Product"],
                                 !.nextID = BulkNextID(n),
                                 !.op = "SeedBulk", !.id = 0]
  /\ UNCHANGED <<asyncRet, invocation>>

UpdateDetails(id, name) ==
  /\ store' = IF id \notin DOMAIN store.products
              THEN [store EXCEPT !.op = "UpdateDetails", !.id = 0]
              ELSE [store EXCEPT !.products[id] = IF name # "" THEN name ELSE @,
                                 !.op = "UpdateDetails", !.id = id]
  /\ UNCHANGED <<asyncRet, invocation>>

Create(name) ==
  /\ store.nextID <= MaxProducts
  /\ LET id == IF store.nextID = 0 THEN 1 ELSE store.nextID
     IN store' = [store EXCEPT !.products = Assign(@, id, name),
                               !.nextID = id + 1,
                               !.op = "Create", !.id = id]
  /\ UNCHANGED <<asyncRet, invocation>>

NextProducts ==
  \/ SeedSample /\ UNCHANGED <<ordersVars, cartVars, timeVars>>
  \/ (\E n \in BulkSizes : SeedBulk(n)) /\ UNCHANGED <<ordersVars, cartVars, timeVars>>
  \/ (\E id \in Ids, name \in Names : UpdateDetails(id, name))
        /\ UNCHANGED <<ordersVars, cartVars, timeVars>>
  \/ (\E name \in Names : Create(name)) /\ UNCHANGED <<ordersVars, cartVars, timeVars>>

InitProducts ==
  /\ InitOrdersWith({[kind |-> "unset", val |-> 0]})
  /\ CartNotDeployed
  /\ asyncRet = <<>>
  /\ invocation = <<>>
  /\ store = NewStore

SpecProducts == InitProducts /\ [][NextProducts]_vars

\* ------------------------------------------------------------------------
\* Several carts: calls that create carts beside calls on the carts there are
\* ------------------------------------------------------------------------
Carts == 1..MaxCarts

InitCarts ==
  /\ InitOrders
  /\ workerEnv.kind = "unset"
  /\ backend \in {"sql", "ddb"}
  /\ shopping_carts = [c \in Carts |-> NoCartRow]
  /\ cart_items = {}
  /\ orders = {}
  /\ order_items = {}
  /\ table = [c \in Carts |-> NoRecord]
  /\ call = [t \in Tasks |-> NoCall]
  /\ ret = NoReturn
  /\ nCarts = 0
  /\ nAdds = 0
  /\ nCheckouts = 0
  /\ added = [c \in Carts |-> [p \in ProductIds |-> 0]]
  /\ products = [p \in {x \in ProductIds : InCatalog(x)} |-> ProductPrice(p)]
  /\ replica = [c \in Carts |-> NoRecord]
  /\ got = NoGot
  /\ failed = {}
  /\ addedAt = [c \in Carts |-> [p \in ProductIds |-> 0]]
  /\ snaps = [c \in Carts |-> {[header |-> NoHeader, lines |-> {}]}]

\* the calls that write carts, on both stores, none of them failing, each
\* adding one unit of product 7
NextCarts ==
  \/ (\E cust \in Customers : Store_CreateCartIn(Carts, cust)) /\ UNCHANGED <<ordersVars, auxVars, readVars, failed, addedAt, snaps>>
  \/ (\E t \in Tasks, c \in Carts : Store_AddOrUpdateItem(t, c, 7, 1, FALSE))
        /\ UNCHANGED <<ordersVars, auxVars, readVars, failed, addedAt, snaps>>
  \/ (\E t \in Tasks : Store_Upsert(t)) /\ UNCHANGED <<ordersVars, auxVars, readVars, failed, addedAt, snaps>>
  \/ (\E t \in Tasks : Store_Touch(t)) /\ UNCHANGED <<ordersVars, auxVars, readVars, failed, addedAt, snaps>>
  \/ (\E t \in Tasks : Store_AddCommit(t)) /\ UNCHANGED <<ordersVars, auxVars, readVars, failed, addedAt, snaps>>
  \/ (\E cust \in Customers : DynamoDBStore_CreateCartIn(Carts, cust)) /\ UNCHANGED <<ordersVars, auxVars, readVars, failed, addedAt, snaps>>
  \/ (\E t \in Tasks, c \in Carts : DynamoDBStore_AddOrUpdateItem(t, c, 7, 1, FALSE))
        /\ UNCHANGED <<ordersVars, auxVars, readVars, failed, addedAt, snaps>>
  \/ (\E t \in Tasks : DynamoDBStore_Put(t)) /\ UNCHANGED <<ordersVars, auxVars, readVars, failed, addedAt, snaps>>
  \/ (\E t \in Tasks, c \in Carts : DynamoDBStore_CheckoutCart(t, c, FALSE))
        /\ UNCHANGED <<ordersVars, auxVars, readVars, failed, addedAt, snaps>>
  \/ (\E t \in Tasks : DynamoDBStore_Delete(t)) /\ UNCHANGED <<ordersVars, auxVars, readVars, failed, addedAt, snaps>>

SpecCarts == InitCarts /\ [][NextCarts]_vars

\* ------------------------------------------------------------------------
\* Properties of the capacity gate and the queue consumer
\* ------------------------------------------------------------------------
SyncInProgress == {r \in SyncReqs : payTask[r] \in Holding}
RECURSIVE SumOver(_, _)
SumOver(S, pc) ==
  IF S = {} THEN 0
  ELSE LET m == CHOOSE x \in S : TRUE IN msgTask[m][pc] + SumOver(S \ {m}, pc)
MsgInProgress == SumOver(Msgs, "processing")
\* payment simulations in progress, over both paths
InProgress == Cardinality(SyncInProgress) + MsgInProgress

\* C1: the number of payment simulations in progress, counted over the
\* synchronous goroutines and the queue-consumer goroutines together, never
\* exceeds the gate size.
C1_GateBound == InProgress <= workerCount

\* the gate is saturated by goroutines of both paths
C1_Witness ==
  /\ InProgress = workerCount
  /\ SyncInProgress # {}
  /\ MsgInProgress > 0

\* C2: the gate never leaks a slot: the slots taken are exactly those of the
\* goroutines that hold one, also after a goroutine faulted while holding its
\* slot; so when no goroutine is processing, every slot is free.
C2_NoLeak ==
  /\ paymentSemaphore = InProgress
  /\ InProgress = 0 => paymentSemaphore = 0

\* a goroutine faulted after it acquired, and every slot is free again
C2_Witness ==
  /\ \E m \in Msgs : msgTask[m]["panicked"] > 0
  /\ InProgress = 0
  /\ paymentSemaphore = 0

Malformed(m) == queue[m].st # "absent" /\ queue[m].kind # "ok"

C9_Reprocessed ==
  \A m \in Msgs :
    /\ [](hist[m].owed => queue[m].st \in {"inflight", "visible"})
    /\ hist[m].owed ~> ~hist[m].owed

\* after such an exit the message was delivered again and is being processed
C9_Witness ==
  \E m \in Msgs :
    /\ hist[m].owed
    /\ crashes > 0
    /\ queue[m].rc > 1
    /\ msgTask[m]["processing"] > 0

\* the process goes down in this step (ProcessExit or Crash)
Exits == crashes' > crashes \/ (Panicking /\ ~Panicking')
\* the handler of request r answers its caller in this step
SyncAnswers(r) == syncReq[r] = "Waiting" /\ syncReq'[r] = "idle" /\ ~Exits

\* C11: the handler of a validated synchronous order answers only when a
\* result is buffered for it and its goroutine is past the payment simulation;
\* a result is buffered only by the goroutine as its timer fires while it
\* holds a slot, and a slot is held only after acquiring it from the gate
\* with room; so no order that awaits capacity or is processing has been
\* answered.
C11_AnswerAfterPayment ==
  [][\A r \in SyncReqs :
       /\ SyncAnswers(r)
            => /\ resultChan[r] > 0
               /\ payTask[r] \in {"releasing", "none"}
               /\ payTask'[r] = payTask[r]
       /\ resultChan'[r] > resultChan[r]
            => /\ payTask[r] = "processing"
               /\ payTask'[r] = "releasing"
       /\ (payTask[r] # "processing" /\ payTask'[r] = "processing")
            => /\ payTask[r] = "await"
               /\ paymentSemaphore < workerCount
               /\ paymentSemaphore' = paymentSemaphore + 1
       /\ payTask[r] \in {"await", "processing"} => syncReq[r] = "Waiting"]_vars

\* a request was answered while its goroutine, done with the payment, still
\* has the deferred release to run
C11_Witness ==
  \E r \in SyncReqs :
    /\ syncReq[r] = "idle"
    /\ payTask[r] = "releasing"
    /\ resultChan[r] = 0

\* the asynchronous handler queues an order in this step
Queues(m) ==
  /\ queue[m].st = "absent"
  /\ queue'[m] = [kind |-> "ok", st |-> "visible", rc |-> 0]

C13_QueuedIsProcessed ==
  \A m \in Msgs :
    (queue[m] = [kind |-> "ok", st |-> "visible", rc |-> 0])
      ~> (msgTask[m]["ack"] > 0)

\* after a process exit the order was delivered again and its payment
\* simulation has completed
C13_Witness ==
  \E m \in Msgs :
    /\ queue[m].kind = "ok"
    /\ crashes > 0
    /\ queue[m].rc > 1
    /\ msgTask[m]["ack"] > 0

\* the ways the goroutines of message m change in one step
Starts(m, b) ==
  /\ msgTask'[m] = [msgTask[m] EXCEPT ![b] = @ + 1]
  /\ queue[m].st = "visible"
  /\ queue'[m].rc = queue[m].rc + 1
Steps(m, a, b) ==
  /\ msgTask[m][a] > 0
  /\ msgTask'[m] = [msgTask[m] EXCEPT ![a] = @ - 1, ![b] = @ + 1]
Ends(m, a) ==
  /\ msgTask[m][a] > 0
  /\ msgTask'[m] = [msgTask[m] EXCEPT ![a] = @ - 1]

\* the steps of the goroutine of synchronous request r
SyncSteps ==
  {<<"none", "await">>, <<"await", "processing">>, <<"processing", "releasing">>,
   <<"processing", "panicked">>, <<"releasing", "none">>}

C15_GateOnlyDelays ==
  /\ \A r \in SyncReqs : (payTask[r] = "await") ~> (payTask[r] = "releasing")
  /\ \A m \in Msgs :
       /\ (msgTask[m]["await"] > 0) ~> (msgTask[m]["await"] = 0)
       /\ (msgTask[m]["processing"] > 0) ~> (msgTask[m]["ack"] > 0)
  /\ [](paymentSemaphore < workerCount =>
         /\ \A r \in SyncReqs : payTask[r] = "await" => ENABLED PayAcquire(r)
         /\ \A m \in Msgs : msgTask[m]["await"] > 0 => ENABLED MsgAcquire(m))

\* the gate is of size one: a synchronous goroutine is done with its payment
\* and still holds the slot while a consumer goroutine waits for it
C15_Witness ==
  /\ workerCount = 1
  /\ \E r \in SyncReqs : payTask[r] = "releasing"
  /\ \E m \in Msgs : msgTask[m]["await"] > 0

\* ------------------------------------------------------------------------
\* Properties of the cart stores
\* ------------------------------------------------------------------------
\* the lines of an order
OrderLines(lines, id) ==
  {[product |-> l.product, quantity |-> l.quantity, price |-> l.price] :
     l \in {x \in lines : x.order_id = id}}
\* the call of t returns in this step
Returns(t) == Active(t) /\ call'[t] = NoCall

\* C3: on the relational store every cart has at most one line per product,
\* and the quantity of the line is the sum of the quantities of the
\* AddOrUpdateItem calls that committed for it, whether they ran one after
\* the other or concurrently.
C3_MergedLine ==
  backend = "sql" =>
    \A c \in CartIds, p \in ProductIds :
      /\ Cardinality(RowsFor(c, p)) <= 1
      /\ \A r \in RowsFor(c, p) : r.quantity = added[c][p]
      /\ added[c][p] > 0 => RowsFor(c, p) # {}

\* two calls for the same product overlapped (the one that started first
\* committed last) and the line holds both quantities
C3_Witness ==
  /\ backend = "sql"
  /\ nAdds = 2
  /\ \E c \in CartIds, p \in ProductIds :
       /\ shopping_carts[c].updated_at = 1
       /\ added[c][p] = 3
       /\ \E r \in RowsFor(c, p) : r.quantity = 3

\* C4 as claimed: on the document store no AddOrUpdateItem is lost, also
\* when the reads and writes of two calls interleave: the record has one
\* line per product added, with the sum of the quantities added.
C4_NoLostUpdate ==
  (backend = "ddb" /\ nCheckouts = 0) =>
    \A c \in CartIds, p \in ProductIds :
      LET found == {i \in 1..Len(table[c].items) : table[c].items[i].product = p}
      IN /\ Cardinality(found) <= 1
         /\ \A i \in found : table[c].items[i].quantity = added[c][p]
         /\ added[c][p] > 0 => found # {}

\* C5: on the relational store the order row, its order lines and the
\* removal of the cart's lines become visible in one step, the commit of a
\* CheckoutCart that returns an order; no other step changes orders or
\* order lines or removes a cart line, and a CheckoutCart that returns an
\* error leaves no order and no order line of its own and changes no table.
C5_CheckoutAtomic ==
  [][backend = "sql" =>
       LET removed == {r \in cart_items : \A x \in cart_items' : RowKey(x) # RowKey(r)}
       IN /\ (orders' # orders \/ order_items' # order_items \/ removed # {}) =>
               \E t \in Tasks :
                 /\ call[t].op = "checkout" /\ Returns(t) /\ ret'.res = "ok"
                 /\ \E o \in orders' \ orders :
                      /\ orders' = orders \cup {o}
                      /\ o.id = call[t].n
                      /\ order_items \subseteq order_items'
                      /\ \A l \in order_items' \ order_items : l.order_id = o.id
                      /\ OrderLines(order_items', o.id) = call[t].items
                      /\ call[t].items # {}
                 /\ removed = {r \in cart_items : RowKey(r) \in call[t].del}
                 /\ \A r \in removed : r.cart = call[t].cart
          /\ \A t \in Tasks :
               (call[t].op = "checkout" /\ Returns(t) /\ ret'.res # "ok") =>
                 /\ orders' = orders /\ order_items' = order_items
                 /\ cart_items' = cart_items
                 /\ \A o \in orders' : o.id # call[t].n
                 /\ \A l \in order_items' : l.order_id # call[t].n]_vars

\* a checkout has committed: its order and order lines are in the tables and
\* the cart has no line
C5_Witness ==
  /\ backend = "sql"
  /\ ret.op = "checkout" /\ ret.res = "ok"
  /\ \E o \in orders : OrderLines(order_items, o.id) # {}
  /\ RowsOf(ret.cart) = {}

\* C6 as claimed: a CheckoutCart that returns an order id has produced an
\* order with that id whose lines are the lines the cart had and whose total
\* is the sum of quantity times price over them, and the cart has no line
\* afterwards.
C6_CheckoutOrder ==
  [][\A t \in Tasks :
       (call[t].op = "checkout" /\ Returns(t) /\ ret'.res = "ok") =>
         LET c == call[t].cart
             lines == IF backend = "sql" THEN SqlLines(cart_items, c)
                      ELSE RecLines(table[c])
         IN /\ \E o \in orders' :
                 /\ o.id = call[t].n
                 /\ o.total_amount = LinesTotal(lines)
                 /\ OrderLines(order_items', o.id) = lines
            /\ SqlLines(cart_items', c) = {}
            /\ RecLines(table'[c]) = {}]_vars

\* C7: a CheckoutCart that finds an existing cart without lines returns
\* ErrEmptyCart (or the error of a failed read) and never goes on to create
\* an order; the step that returns ErrEmptyCart changes no table and no
\* record, so no order exists for it and the cart is still there, unchanged
\* and without lines.
C7_EmptyCheckout ==
  [][/\ \A t \in Tasks :
          (call[t].op = "checkout" /\ call[t].pc = "readItems" /\ call'[t] # call[t]
             /\ SqlLines(cart_items, call[t].cart) = {}) =>
            /\ call'[t] = NoCall
            /\ ret' \in {[op |-> "checkout", cart |-> call[t].cart, res |-> r] :
                           r \in {"EmptyCart", "error"}}
     /\ \A c \in CartIds :
          (backend = "ddb" /\ nCheckouts' # nCheckouts /\ table[c].exists
             /\ table[c].items = <<>>) =>
            /\ \A t \in Tasks : ~(call'[t].op = "checkout" /\ call'[t].cart = c)
            /\ ret'.cart = c => ret'.res \in {"EmptyCart", "error"}
     /\ ((\/ \E t \in Tasks : call[t].op = "checkout" /\ Returns(t)
          \/ nCheckouts' # nCheckouts /\ call' = call)
         /\ ret'.res = "EmptyCart") =>
            /\ UNCHANGED <<shopping_carts, cart_items, orders, order_items, table>>
            /\ backend = "sql" =>
                 /\ shopping_carts'[ret'.cart].exists
                 /\ SqlLines(cart_items', ret'.cart) = {}
            /\ backend = "ddb" =>
                 /\ table'[ret'.cart].exists
                 /\ RecLines(table'[ret'.cart]) = {}]_vars

\* a checkout of an existing cart without lines has returned ErrEmptyCart
C7_Witness ==
  /\ ret.op = "checkout" /\ ret.res = "EmptyCart"
  /\ \/ backend = "sql" /\ shopping_carts[ret.cart].exists /\ RowsOf(ret.cart) = {}
     \/ backend = "ddb" /\ table[ret.cart].exists /\ table[ret.cart].items = <<>>

\* GetCartWithItems on cart c returns a cart in this step
GetReturns(c) ==
  \/ \E t \in Tasks : call[t].op = "get" /\ call[t].cart = c /\ Store_GetItems(t)
  \/ DynamoDBStore_GetCartWithItems(c, FALSE) /\ got'.res = "ok"

\* C16 as claimed: GetCartWithItems never returns a line that a successful
\* checkout of the cart has removed and that no successful AddOrUpdateItem has
\* added again since: every line it returns is of a product added since the
\* last checkout, on both stores.
C16_NoSoldLines ==
  [][\A c \in CartIds :
       GetReturns(c) => \A l \in got'.lines : added[c][l.product] > 0]_vars

\* the checkout of t on the document store has generated its order id
Generated(t) == call[t].op = "checkout" /\ call[t].pc = "deleteItem"

\* C17: on the document store a checkout that fails after it generated its
\* order id (the DeleteItem fails, or the call dies) returns an error and no
\* order id and leaves the table as it is, so the cart record keeps all its
\* lines; the deletion of a checkout that has its id can always be issued;
\* and every checkout that runs afterwards has an order id different from the
\* ids of the checkouts that failed.
C17_DualWriteHazard ==
  /\ [][\A t \in Tasks :
          (Generated(t) /\ Returns(t) /\ ret'.res # "ok")
            => /\ ret' = [op |-> "checkout", cart |-> call[t].cart, res |-> "error"]
               /\ table' = table
               /\ failed' = failed \cup {call[t].n}]_vars
  /\ [](\A t \in Tasks :
          Generated(t) => /\ call[t].n \notin failed
                          /\ ENABLED DynamoDBStore_Delete(t))

\* a checkout failed after generating its id, and a later checkout of the
\* same cart, with another id, has its deletion to issue on the record that
\* still has its line
C17_Witness ==
  \E t \in Tasks :
    /\ Generated(t)
    /\ failed = {1}
    /\ call[t].n = 2
    /\ table[call[t].cart].exists
    /\ Len(table[call[t].cart].items) > 0

\* what a caller can observe of cart c: whether it exists, and its lines as
\* (product, quantity)
Observable(c) ==
  IF backend = "sql"
  THEN [exists |-> shopping_carts[c].exists,
        lines |-> {<<r.product, r.quantity>> : r \in RowsOf(c)}]
  ELSE [exists |-> table[c].exists,
        lines |-> {<<l.product, l.quantity>> : l \in RecLines(table[c])}]
ObservableAfter(c) ==
  IF backend = "sql"
  THEN [exists |-> shopping_carts'[c].exists,
        lines |-> {<<r.product, r.quantity>> : r \in {x \in cart_items' : x.cart = c}}]
  ELSE [exists |-> table'[c].exists,
        lines |-> {<<l.product, l.quantity>> : l \in RecLines(table'[c])}]

\* the outcome kind the store contract gives a call on a cart seen as o
Answer(op, o, p) ==
  IF ~o.exists THEN "CartNotFound"
  ELSE IF op = "add" /\ ~InCatalog(p) THEN "ProductNotFound"
  ELSE IF op = "checkout" /\ o.lines = {} THEN "EmptyCart"
  ELSE "ok"
\* the lines after q of product p is added to the lines ls
Plus(ls, p, q) ==
  IF \E l \in ls : l[1] = p
  THEN {IF l[1] = p THEN <<p, l[2] + q>> ELSE l : l \in ls}
  ELSE ls \cup {<<p, q>>}

\* the call of t, which does not fail, is answered in this step
Answered(t) == Returns(t) /\ ret'.res # "error"

\* C18 as claimed: in a sequence of calls both stores answer alike and show
\* the same carts. Each call that does not fail gets the outcome kind that the
\* contract gives it for the cart as it is observable before the call
\* (NotFound for the cart, NotFound for the product, EmptyCart, success), a
\* successful AddOrUpdateItem adds its quantity to the line of its product, a
\* successful checkout leaves the cart in place without lines, and
\* GetCartWithItems returns the lines of the cart, on either store.
C18_SameAnswers ==
  [][/\ \A t \in Tasks, c \in CartIds, p \in ProductIds, q \in Quantities :
          (Store_AddOrUpdateItem(t, c, p, q, FALSE)
             \/ DynamoDBStore_AddOrUpdateItem(t, c, p, q, FALSE))
            => IF Answer("add", Observable(c), p) = "ok"
               THEN Active(t)' /\ ret' = ret
               ELSE ret'.res = Answer("add", Observable(c), p) /\ call' = call
     /\ \A t \in Tasks, c \in CartIds :
          (Store_CheckoutCart(t, c, FALSE) \/ DynamoDBStore_CheckoutCart(t, c, FALSE))
            => IF Answer("checkout", Observable(c), 0) \in {"ok", "EmptyCart"}
               THEN (Active(t)' /\ ret' = ret) \/ ret'.res = "EmptyCart"
               ELSE ret'.res = Answer("checkout", Observable(c), 0) /\ call' = call
     /\ \A t \in Tasks :
          Answered(t) =>
            LET c == call[t].cart
                o == Observable(c)
            IN /\ ret'.res = Answer(call[t].op, o, call[t].product)
               /\ call[t].op = "add" =>
                    ObservableAfter(c) =
                      [o EXCEPT !.lines = Plus(o.lines, call[t].product, call[t].quantity)]
               /\ (call[t].op = "checkout" /\ ret'.res = "ok") =>
                    ObservableAfter(c) = [o EXCEPT !.lines = {}]
               /\ call[t].op = "get" =>
                    {<<l.product, l.quantity>> : l \in got'.lines} = o.lines
     /\ \A c \in CartIds :
          DynamoDBStore_GetCartWithItems(c, FALSE) =>
            /\ ret'.res = Answer("get", Observable(c), 0)
            /\ {<<l.product, l.quantity>> : l \in got'.lines} = Observable(c).lines]_vars

\* the relational checkout of t reads the lines of its cart
ReadsItems(t) ==
  call[t].op = "checkout" /\ call[t].pc = "readItems" /\ call'[t].pc = "insertOrder"

\* C19: the relational store prices an order at checkout. The lines a checkout
\* reads carry the prices the catalog has when it reads them, whatever the
\* catalog said when the lines were added; the checkout keeps what it read
\* until it commits; and the commit adds exactly these lines, at these prices,
\* and an order whose total is their sum.
C19_LivePricing ==
  [][\A t \in Tasks :
       /\ ReadsItems(t) =>
            call'[t].items =
              {[product |-> r.product, quantity |-> r.quantity,
                price |-> products[r.product]] : r \in RowsOf(call[t].cart)}
       /\ (call[t].op = "checkout" /\ call'[t].op = "checkout" /\ ~ReadsItems(t)) =>
            call'[t].items = call[t].items
       /\ (backend = "sql" /\ call[t].op = "checkout" /\ Returns(t) /\ ret'.res = "ok") =>
            /\ order_items' \ order_items =
                 {[order_id |-> call[t].n, product |-> l.product,
                   quantity |-> l.quantity, price |-> l.price] : l \in call[t].items}
            /\ \E o \in orders' \ orders :
                 o.id = call[t].n /\ o.total_amount = LinesTotal(call[t].items)]_vars

\* a checkout returned an order with a line at the price the catalog has now,
\* which is not the price it had when the line was added
C19_Witness ==
  /\ backend = "sql"
  /\ ret.op = "checkout" /\ ret.res = "ok"
  /\ \E l \in order_items :
       /\ l.order_id = nCheckouts
       /\ l.price = products[l.product]
       /\ addedAt[ret.cart][l.product] \notin {0, l.price}
       /\ added[ret.cart][l.product] = 0
       /\ \E o \in orders : o.id = l.order_id /\ o.total_amount >= l.quantity * l.price

\* the price the record of cart c holds for each product it has a line for
StoredPrices(rec) == {<<l.product, l.price>> : l \in RecLines(rec)}

\* C20: the document store keeps the price a line got when it was added. No
\* step changes the price of a line that stays in the record of a cart; an
\* AddOrUpdateItem for a product the record read by the call has a line for
\* writes that line back with the same price and a larger quantity, and the
\* other lines as they were read; a change of a catalog price leaves the
\* table as it is.
C20_SnapshotPricing ==
  [][/\ \A c \in CartIds :
          \A old \in StoredPrices(table[c]), new \in StoredPrices(table'[c]) :
            old[1] = new[1] => old[2] = new[2]
     /\ \A t \in Tasks :
          (backend = "ddb" /\ call[t].op = "add" /\ Returns(t) /\ ret'.res = "ok") =>
            \A l \in RecLines(call[t].rec) :
              \E m \in RecLines(table'[call[t].cart]) :
                /\ m.product = l.product
                /\ m.price = l.price
                /\ m.quantity = IF l.product = call[t].product
                                THEN l.quantity + call[t].quantity ELSE l.quantity
     /\ products' # products => table' = table]_vars

\* the catalog price of a product changed after its line was added, a later
\* AddOrUpdateItem for the product returned, and the line has the sum of the
\* quantities and still the price it was added with
C20_Witness ==
  /\ backend = "ddb"
  /\ \E c \in CartIds :
       \E l \in RecLines(table[c]) :
         /\ l.price = addedAt[c][l.product]
         /\ l.price # products[l.product]
         /\ l.quantity = added[c][l.product]
         /\ l.quantity >= 2
         /\ ret = [op |-> "add", cart |-> c, res |-> "ok"]

\* C21 as claimed: the header and the lines a GetCartWithItems returns are
\* those of the stored cart at one moment: together they are a state the cart
\* has been in, whatever AddOrUpdateItem and CheckoutCart calls run meanwhile.
C21_OneSnapshot ==
  [][\A c \in CartIds :
       GetReturns(c) => [header |-> got'.header, lines |-> got'.lines] \in snaps'[c]]_vars

\* AddOrUpdateItem(c, p, q) is called in this step and its store does not fail
AddCalled(c, p, q) ==
  \E t \in Tasks :
    \/ Store_AddOrUpdateItem(t, c, p, q, FALSE)
    \/ DynamoDBStore_AddOrUpdateItem(t, c, p, q, FALSE)

\* C22 as claimed: an AddOrUpdateItem for a cart that does not exist returns
\* NotFound for the cart, and one for an existing cart and a product that is
\* not in the catalog returns NotFound for the product; either way the call
\* ends there and the carts, their lines and their timestamps stay as they
\* are.
C22_AddNotFound ==
  [][\A c \in CartIds, p \in ProductIds, q \in Quantities :
       (AddCalled(c, p, q) /\ Answer("add", Observable(c), p) # "ok") =>
         /\ ret' = [op |-> "add", cart |-> c, res |-> Answer("add", Observable(c), p)]
         /\ call' = call
         /\ UNCHANGED <<shopping_carts, cart_items, table>>]_vars

\* the checkout of t has found lines in its cart and goes on
FoundLines(t) ==
  /\ call'[t].op = "checkout"
  /\ \/ call[t].pc = "readItems" /\ call'[t].pc = "insertOrder"
     \/ call[t].pc = "idle" /\ call'[t].pc = "deleteItem"

\* C23: an order comes from a cart with lines. Every order in the tables has
\* an order line; an order is added only by the commit of a checkout, with the
\* lines this checkout read, of which there is at least one; a checkout passes
\* its check for an empty cart only in a step in which its cart has a line;
\* and a checkout returns an order id only after passing this check.
C23_OrderFromLines ==
  /\ [](\A o \in orders : \E l \in order_items : l.order_id = o.id)
  /\ [][/\ \A o \in orders' \ orders :
            \E t \in Tasks :
              /\ call[t].op = "checkout" /\ call[t].pc = "commit" /\ Returns(t)
              /\ o.id = call[t].n
              /\ call[t].items # {}
              /\ {[product |-> l.product, quantity |-> l.quantity, price |-> l.price] :
                    l \in {x \in order_items' : x.order_id = o.id}} = call[t].items
       /\ \A t \in Tasks :
            /\ FoundLines(t) =>
                 IF backend = "sql" THEN RowsOf(call'[t].cart) # {} /\ call'[t].items # {}
                 ELSE table[call'[t].cart].items # <<>>
            /\ (call[t].op = "checkout" /\ Returns(t) /\ ret'.res = "ok") =>
                 call[t].pc \in {"commit", "deleteItem"}
            /\ (call'[t].op = "checkout" /\ call'[t].pc \in {"commit", "deleteItem"}) =>
                 \/ FoundLines(t)
                 \/ call[t].op = "checkout" /\ call[t].pc \notin {"idle", "readItems"}]_vars

\* an order with two lines is in the tables, made from a cart that two
\* AddOrUpdateItem calls had put a line in
C23_Witness ==
  /\ backend = "sql"
  /\ ret.op = "checkout" /\ ret.res = "ok"
  /\ \E o \in orders :
       /\ o.id = nCheckouts
       /\ o.total_amount > 0
       /\ \E l, m \in order_items : l.order_id = o.id /\ m.order_id = o.id /\ l.product # m.product

\* the submissions of the burst that were answered, and those whose payment
\* has started
Answered24 == {r \in Burst : doneAt[r] >= 0}
Started24 == {r \in Burst : due[r] >= 0}
\* when the first payment of the burst started
FirstStart ==
  LET r == CHOOSE x \in Started24 : \A y \in Started24 : due[x] <= due[y]
  IN due[r] - PaymentDelay
\* ceil(m / n - 1) for n > 0
Rounds(m, n) == (m + n - 1) \div n - 1

C25_OneCheckoutWins ==
  [][\A t \in Tasks :
       (backend = "sql" /\ call[t].op = "checkout" /\ Returns(t) /\ ret'.res = "ok") =>
         \A l \in call[t].items :
           \E r \in RowsOf(call[t].cart) :
             r.product = l.product /\ RowKey(r) \in call[t].del]_vars

\* a checkout of cart c has succeeded: its order is in the tables, or the
\* record of the cart, which was created, is no longer in the table
CheckedOut(c) ==
  IF backend = "sql"
  THEN shopping_carts[c].exists
         /\ \E o \in orders : o.customer_id = shopping_carts[c].customer_id
  ELSE c <= nCarts /\ ~table[c].exists

\* C26 as claimed: a checkout ends the life of a cart. Once a checkout of a
\* cart has succeeded, no AddOrUpdateItem on the cart returns success and no
\* CheckoutCart of it returns another order.
C26_CheckoutTerminal ==
  [][\A t \in Tasks :
       (call[t].op \in {"add", "checkout"} /\ Returns(t) /\ CheckedOut(call[t].cart)) =>
         ret'.res # "ok"]_vars

\* the quantity of product p in the lines ls
RECURSIVE QuantityOf(_, _)
QuantityOf(ls, p) ==
  IF ls = {} THEN 0
  ELSE LET l == CHOOSE x \in ls : TRUE
       IN (IF l.product = p THEN l.quantity ELSE 0) + QuantityOf(ls \ {l}, p)

\* C27 as claimed: a checkout loses nothing that was added. When a
\* CheckoutCart returns an order, every quantity that AddOrUpdateItem calls
\* that returned success have added to the cart since its lines were last
\* removed is in the lines of the order or is still in the cart.
C27_NothingLost ==
  [][\A t \in Tasks :
       (call[t].op = "checkout" /\ Returns(t) /\ ret'.res = "ok") =>
         LET c == call[t].cart
             left == IF backend = "sql" THEN SqlLines(cart_items', c)
                     ELSE RecLines(table'[c])
         IN \A p \in ProductIds :
              added[c][p] <= QuantityOf(call[t].items, p) + QuantityOf(left, p)]_vars

\* C28 as claimed: on the document store a cart record that a checkout has
\* deleted never exists again: no step puts a record back for a cart that
\* was created and whose record is gone.
C28_DeletedStaysDeleted ==
  [][\A c \in CartIds :
       (backend = "ddb" /\ c <= nCarts /\ ~table[c].exists) => ~table'[c].exists]_vars

\* a goroutine of message m takes a slot: a payment simulation of m starts
RunStarts(m) == msgTask'[m]["processing"] > msgTask[m]["processing"]

\* C29 as claimed: without a process exit and without a failed acknowledgment
\* the payment simulation of a well-formed message runs once: when one
\* starts, none has started for the message before, that is, no goroutine of
\* the message holds a slot or is about to acknowledge, and the message has
\* not been acknowledged.
C29_PaidOnce ==
  [][\A m \in Msgs :
       (RunStarts(m) /\ crashes = 0 /\ ~hist[m].ackLost) =>
         /\ msgTask[m]["processing"] = 0
         /\ msgTask[m]["ack"] = 0
         /\ queue[m].st # "deleted"]_vars

\* the sum over the first n lines of a record, of the quantities or of
\* quantity times the price kept in the line
RECURSIVE SumTo(_, _, _)
SumTo(items, n, priced) ==
  IF n = 0 THEN 0
  ELSE items[n].quantity * (IF priced THEN items[n].price ELSE 1)
         + SumTo(items, n - 1, priced)

\* C30: on the document store every stored cart record has item_count equal
\* to the sum of the quantities of its lines, total_amount equal to the sum
\* over its lines of quantity times the price kept in the line, and at most
\* one line per product.
C30_RecordTotals ==
  \A c \in CartIds :
    (backend = "ddb" /\ c <= nCarts /\ table[c].exists) =>
      LET items == table[c].items IN
        /\ table[c].item_count = SumTo(items, Len(items), FALSE)
        /\ table[c].total_amount = SumTo(items, Len(items), TRUE)
        /\ \A i, j \in 1..Len(items) : items[i].product = items[j].product => i = j

\* a record written by two calls that succeeded, with two lines of different
\* products, one of them of quantity 2
C30_Witness ==
  \E c \in CartIds :
    /\ backend = "ddb" /\ table[c].exists
    /\ Len(table[c].items) = 2
    /\ table[c].items[1].product # table[c].items[2].product
    /\ table[c].items[2].quantity = 2
    /\ table[c].item_count = 3

\* request bodies that fail ShouldBindJSON or carry no items
Rejected == {"badJson", "noItems"}

\* C31: in every state, handling an order body that fails validation changes
\* nothing, on the synchronous and on the asynchronous path, whatever step of
\* the publish would fail: no slot is taken, no payment goroutine is started,
\* no message is queued, and gate occupancy and queue stay as they are.
C31_RejectedChangesNothing ==
  \A p \in Rejected :
    /\ \A r \in SyncReqs : ~ENABLED <<CreateOrderSync(r, p)>>_ordersVars
    /\ \A f \in AsyncFaults : ~ENABLED <<CreateOrderAsync(p, f)>>_ordersVars

\* a state in which a rejected body can arrive on both paths while it would
\* matter: a handler is free and the gate has room beside the payment of a
\* queued order that is in progress
C31_Witness ==
  /\ \E r \in SyncReqs : FreeReq(r) /\ \A q \in SyncReqs : q < r => ~FreeReq(q)
  /\ 0 < paymentSemaphore /\ paymentSemaphore < workerCount
  /\ \E m \in Msgs : msgTask[m]["processing"] > 0

\* the asynchronous handler answers in this step (all it changes besides is
\* the queue)
AsyncReturns == asyncRet' # asyncRet \/ (queue' # queue /\ \E m \in Msgs : Queues(m))

\* C32: the asynchronous handler answers "queued" only for a request whose
\* publish succeeded, and then the order's message is in the queue; when the
\* topic is not configured, the session cannot be created, serialization
\* fails or the publish fails, it answers with a failure and the queue is as
\* it was.
C32_QueuedOnlyIfPublished ==
  [][AsyncReturns =>
       /\ asyncRet'.outcome = "queued" <=> asyncRet'.fault = "none" /\ asyncRet'.body = "ok"
       /\ asyncRet'.outcome = "queued" <=> \E m \in Msgs : Queues(m)
       /\ (asyncRet'.body = "ok" /\ asyncRet'.fault # "none") =>
            /\ asyncRet'.outcome = "error"
            /\ UNCHANGED queue]_vars

\* a valid order whose publish failed was answered with a failure and there
\* is no message in the queue
C32_Witness ==
  /\ asyncRet = [body |-> "ok", fault |-> "publish", outcome |-> "error"]
  /\ \A m \in Msgs : queue[m].st = "absent"

\* what is stored of cart c: its row and rows of lines, or its record
Stored(c) ==
  IF backend = "sql"
  THEN [exists |-> shopping_carts[c].exists, cart |-> shopping_carts[c],
        lines |-> {r \in cart_items : r.cart = c}]
  ELSE [exists |-> table[c].exists, cart |-> table[c], lines |-> RecLines(table[c])]

\* C33: a CreateCart call that returns stores a cart with no lines under an
\* id that no earlier CreateCart call returned and under which nothing is
\* stored, and it leaves what is stored of every other cart as it was, also
\* while calls on other carts are in progress.
C33_FreshCart ==
  [][nCarts' # nCarts =>
       \E id \in Carts :
         /\ id \notin 1..nCarts
         /\ ~Stored(id).exists
         /\ Stored(id)'.exists
         /\ Stored(id)'.lines = {}
         /\ \A c \in Carts \ {id} : Stored(c)' = Stored(c)]_vars

\* two carts were created, the second after a call had begun to add a line to
\* the first, and the first has its line while the second has none
C33_Witness ==
  /\ nCarts = 2
  /\ Stored(1).exists /\ Stored(2).exists
  /\ Stored(1).lines # {} /\ Stored(2).lines = {}
  /\ Stored(2).cart.created_at > Stored(1).cart.created_at

\* the fields of a cart record that no AddOrUpdateItem is to change
Fixed(rec) ==
  [exists |-> rec.exists, customer_id |-> rec.customer_id,
   created_at |-> rec.created_at, expiration_time |-> rec.expiration_time]
\* the lines of a record that are not of product p
OtherLines(rec, p) == {l \in RecLines(rec) : l.product # p}

\* C34 as claimed: on the document store a successful AddOrUpdateItem leaves
\* the stored record of its cart with the customer, the creation time, the
\* expiry and every line of another product as they were stored before the
\* call wrote.
C34_OnlyTargetLine ==
  [][\A t \in Tasks :
       (backend = "ddb" /\ call[t].op = "add" /\ Returns(t) /\ ret'.res = "ok") =>
         /\ Fixed(table'[call[t].cart]) = Fixed(table[call[t].cart])
         /\ OtherLines(table'[call[t].cart], call[t].product)
              = OtherLines(table[call[t].cart], call[t].product)]_vars

\* the frame that does hold: with respect to the record the call read
AddFrameOfRead ==
  [][\A t \in Tasks :
       (backend = "ddb" /\ call[t].op = "add" /\ Returns(t) /\ ret'.res = "ok") =>
         /\ Fixed(table'[call[t].cart]) = Fixed(call[t].rec)
         /\ OtherLines(table'[call[t].cart], call[t].product)
              = OtherLines(call[t].rec, call[t].product)]_vars

\* the records of the event in hand that fail to parse or to process
Failing == {i \in 1..Len(invocation.snsEvent) :
              \/ ~Unmarshals(invocation.snsEvent[i])
              \/ PaymentFails(invocation.snsEvent[i])}
\* the records before the first one that fails, in order
BeforeFailure ==
  LET first == CHOOSE i \in Failing : \A j \in Failing : i <= j
  IN [i \in 1..(first - 1) |-> i]

\* C35: the Lambda handler processes the records of its event in order; it
\* returns nil only after it has parsed and processed every record, none of
\* them failing; when a record fails it returns an error, and then it has
\* processed the records before the first one that fails and none after it.
C35_StopsAtFirstFailure ==
  /\ \A i \in 1..Len(invocation.paid) : invocation.paid[i] = i
  /\ invocation.ret = "ok" =>
       /\ Failing = {}
       /\ Len(invocation.paid) = Len(invocation.snsEvent)
  /\ invocation.ret = "error" =>
       /\ Failing # {}
       /\ invocation.paid = BeforeFailure
  /\ (invocation.pc = "returned" /\ Failing # {}) => invocation.ret = "error"

\* an event of three records, the second of which does not parse, was
\* answered with an error after the first record alone was processed
C35_Witness ==
  /\ invocation.snsEvent = <<"ok", "badJson", "ok">>
  /\ invocation.ret = "error"
  /\ invocation.paid = <<1>>

\* a Create call returns in this step
Creates == store' # store /\ store'.op = "Create"

\* C36: whatever calls of SeedSample, SeedBulk, Create and UpdateDetails came
\* before, in whatever order, a Create returns an id that was not in the store
\* before the call, stores its product under that id and leaves every product
\* that was in the store as it was; and every id in the store is below nextID.
C36_CreateIsFresh ==
  /\ [](\A k \in DOMAIN store.products : k < store.nextID)
  /\ [][Creates =>
          /\ store'.id \notin DOMAIN store.products
          /\ store'.id \in DOMAIN store'.products
          /\ \A k \in DOMAIN store.products : store'.products[k] = store.products[k]]_vars

\* a Create returned id 3 after a bulk load of two products, which are still
\* in the store
C36_Witness ==
  /\ store.op = "Create"
  /\ store.id = 3
  /\ DOMAIN store.products = 1..3
  /\ store.products[1] = "Product" /\ store.products[2] = "Product"

\* C37: the size of the gate is at least 1 and is the value of WORKER_COUNT
\* when that is a positive integer and 1 when it is unset, not a number, zero
\* or negative; no step of a handler, of a payment goroutine or of the order
\* processor changes it, and a process that starts anew gets the same size.
C37_GateSizeFixed ==
  /\ [](/\ workerCount >= 1
        /\ (workerEnv.kind = "int" /\ workerEnv.val >= 1) => workerCount = workerEnv.val
        /\ (workerEnv.kind # "int" \/ workerEnv.val <= 0) => workerCount = 1)
  /\ [][workerCount' = workerCount]_vars

\* with WORKER_COUNT zero the gate has one slot, which is taken after the
\* process started anew, and a goroutine waits for it
C37_Witness ==
  /\ workerEnv = [kind |-> "int", val |-> 0]
  /\ workerCount = 1
  /\ paymentSemaphore = 1
  /\ crashes > 0
  /\ \E m \in Msgs : msgTask[m]["await"] > 0 \/ \E r \in SyncReqs : payTask[r] = "await"

====
